---- MODULE Spec2Model ----
(***************************************************************************)
(* Staffing calculator (src/app.py): enrollment distribution, attendance,  *)
(* ratio arithmetic, enhanced-ratio selection and the capacity-planner     *)
(* routes with their persisted settings record.                            *)
(*                                                                         *)
(* Numbers.  Percentages are Python floats.  They are held here as whole   *)
(* numbers of 1/PctScale of a percentage point, and the products           *)
(* total_children * age * schedule * day are computed exactly, digit by    *)
(* digit in base Hundred, so that the floor and the fractional part of a   *)
(* raw count are the exact ones.  IEEE rounding is visible in one place    *)
(* only: two raw counts with equal exact fractional parts but different    *)
(* factors may compare either way after `raw - int(raw)`.  That is the     *)
(* parameter fp of calculate_capacity_plan, drawn from Roundings.          *)
(* (A product that is an exact integer k may also come out as k - ulp;     *)
(* int() then yields k - 1, the fractional part is the largest of all, the *)
(* remainder grows by one and the unit goes straight back to that entry,   *)
(* so for mixes in 0..100 that sum to 100 the counts are those computed    *)
(* here.)                                                                  *)
(***************************************************************************)
EXTENDS Integers, Sequences, FiniteSets, TLC

VARIABLES
    plan_in,            \* arguments of a calculate_capacity_plan call
    plan_out,           \* its return value, NULL before the call
    capacity_settings,  \* the rows of the capacity_settings table, by id
    pending,            \* the HTTP request in flight, NULL when there is none
    response,           \* the last HTTP response sent, NULL before the first
    ratio_in,           \* arguments of an evaluate_ratio_option call
    ratio_out,          \* its return value, NULL before the call
    staff_member,       \* the rows of the staff_member table, by id
    age_group,          \* the rows of the age_group table, by id
    core_plan,          \* the rows of the core_plan table, by id
    fixed_expense,      \* the rows of the fixed_expense table, by id
    per_child_cost,     \* the rows of the per_child_cost table, by id
    labor_in,           \* arguments of a calculate_daily_labor call
    labor_out,          \* its return value, NULL before the call
    sens_in,            \* arguments of a calculate_sensitivity call
    sens_out,           \* its return value, NULL before the call
    threads             \* the requests that run concurrently, by thread

vars == <<plan_in, plan_out, capacity_settings, pending, response,
          ratio_in, ratio_out, staff_member, age_group,
          core_plan, fixed_expense, per_child_cost,
          labor_in, labor_out, sens_in, sens_out, threads>>

plan_vars == <<plan_in, plan_out>>

route_vars == <<capacity_settings, pending, response>>

ratio_vars == <<ratio_in, ratio_out>>

staff_vars == <<staff_member, age_group>>

finance_vars == <<core_plan, fixed_expense, per_child_cost>>

call_vars == <<labor_in, labor_out, sens_in, sens_out, threads>>

\* Python None, where a record may stand
NULL == [none |-> TRUE]

\* the finance tables are empty
NoFinance ==
    /\ core_plan = <<>>
    /\ fixed_expense = <<>>
    /\ per_child_cost = <<>>

\* no calculate_daily_labor or calculate_sensitivity call is made
NoCalls ==
    /\ labor_in = NULL
    /\ labor_out = NULL
    /\ sens_in = NULL
    /\ sens_out = NULL
    /\ threads = <<>>

\* ------------------------------------------------------------------ bounds
PctScale == 200         \* units per percentage point (0.005 % resolution)
MaxChildren == 12       \* largest total_children drawn
MaxChildCount == 16     \* largest child_count of one age group
MaxRatioStaff == 2      \* largest S of a ratio "S:C" drawn
MaxRatioChildren == 18  \* largest C of a ratio "S:C" drawn
MaxStaff == 2           \* rows of staff_member
MaxAgeGroups == 1       \* rows of age_group

\* the staff ids whose availability is toggled
ToggleIds == {1, MaxStaff + 1}

\* ------------------------------------------------------- python built-ins
Abs(x) == IF x < 0 THEN -x ELSE x

Sign(x) == IF x < 0 THEN -1 ELSE IF x = 0 THEN 0 ELSE 1

\* dict.get(k, default)
Get(d, k, default) == IF k \in DOMAIN d THEN d[k] ELSE default

\* sum(d.values())
RECURSIVE SumValues(_)
SumValues(d) ==
    IF DOMAIN d = {} THEN 0
    ELSE LET k == CHOOSE x \in DOMAIN d : TRUE
         IN d[k] + SumValues([x \in DOMAIN d \ {k} |-> d[x]])

\* sum(f(x) for x in seq)
RECURSIVE SumSeq(_)
SumSeq(s) == IF s = <<>> THEN 0 ELSE Head(s) + SumSeq(Tail(s))

\* 100 % in units; also the base of the exact fixed-point digits
Hundred == 100 * PctScale

Pct(p) == p * PctScale

\* ------------------------------------------------------- plan constants
DAY_PATTERNS ==
    [full |-> [name |-> "Mon-Fri", count |-> 5,
               days |-> <<"monday", "tuesday", "wednesday", "thursday", "friday">>],
     mwf  |-> [name |-> "Mon/Wed/Fri", count |-> 3,
               days |-> <<"monday", "wednesday", "friday">>],
     tth  |-> [name |-> "Tue/Thu", count |-> 2,
               days |-> <<"tuesday", "thursday">>]]

WEEKDAYS == <<"Monday", "Tuesday", "Wednesday", "Thursday", "Friday">>

\* the 12 combinations in the order the nested loops append them
plan_combinations ==
    <<[schedule_type |-> "core",     day_pattern |-> "full", age_group_type |-> "infant"],
      [schedule_type |-> "core",     day_pattern |-> "full", age_group_type |-> "child"],
      [schedule_type |-> "core",     day_pattern |-> "mwf",  age_group_type |-> "infant"],
      [schedule_type |-> "core",     day_pattern |-> "mwf",  age_group_type |-> "child"],
      [schedule_type |-> "core",     day_pattern |-> "tth",  age_group_type |-> "infant"],
      [schedule_type |-> "core",     day_pattern |-> "tth",  age_group_type |-> "child"],
      [schedule_type |-> "extended", day_pattern |-> "full", age_group_type |-> "infant"],
      [schedule_type |-> "extended", day_pattern |-> "full", age_group_type |-> "child"],
      [schedule_type |-> "extended", day_pattern |-> "mwf",  age_group_type |-> "infant"],
      [schedule_type |-> "extended", day_pattern |-> "mwf",  age_group_type |-> "child"],
      [schedule_type |-> "extended", day_pattern |-> "tth",  age_group_type |-> "infant"],
      [schedule_type |-> "extended", day_pattern |-> "tth",  age_group_type |-> "child"]>>

\* ---------------------------------------------- exact raw_count arithmetic
\* x = <<x0, x1, x2, x3>> stands for x0 + x1*H + x2*H^2 + x3*H^3 (H = Hundred);
\* MulDigits(x, m) is x * m for m >= 0.
MulDigits(x, m) ==
    LET c0 == x[1] * m
        c1 == x[2] * m + (c0 \div Hundred)
        c2 == x[3] * m + (c1 \div Hundred)
        c3 == x[4] * m + (c2 \div Hundred)
    IN <<c0 % Hundred, c1 % Hundred, c2 % Hundred, c3>>

\* total_children * (a/100) * (s/100) * (d/100) as sign and magnitude;
\* mag[4] is the integer part, <<mag[3], mag[2], mag[1]>> the fraction digits
RawCount(total_children, a, s, d) ==
    [sign |-> Sign(total_children) * Sign(a) * Sign(s) * Sign(d),
     mag  |-> MulDigits(MulDigits(MulDigits(<<Abs(total_children), 0, 0, 0>>,
                                            Abs(a)), Abs(s)), Abs(d))]

\* int(raw_count): truncation toward zero
IntPart(raw) == raw.sign * raw.mag[4]

\* raw_count - int(raw_count), followed by the rounding direction e of the
\* float result; compared lexicographically
FracKey(raw, e) ==
    <<raw.sign * raw.mag[3], raw.sign * raw.mag[2], raw.sign * raw.mag[1], e>>

KeyGreater(k1, k2) ==
    \E n \in 1..4 : k1[n] > k2[n] /\ \A m \in 1..(n - 1) : k1[m] = k2[m]

\* ------------------------------------------------------------ permit levels
PERMIT_LEVELS ==
    "Program Director" :>
        [rank |-> 6, can_teach |-> TRUE, max_assistants |-> 4,
         needs_supervision |-> FALSE,
         can_supervise |-> <<"Site Supervisor", "Master Teacher", "Teacher",
                             "Associate Teacher", "Assistant">>]
    @@ "Site Supervisor" :>
        [rank |-> 5, can_teach |-> TRUE, max_assistants |-> 4,
         needs_supervision |-> FALSE,
         can_supervise |-> <<"Master Teacher", "Teacher", "Associate Teacher",
                             "Assistant">>]
    @@ "Master Teacher" :>
        [rank |-> 4, can_teach |-> TRUE, max_assistants |-> 3,
         needs_supervision |-> FALSE,
         can_supervise |-> <<"Teacher", "Associate Teacher", "Assistant">>]
    @@ "Teacher" :>
        [rank |-> 3, can_teach |-> TRUE, max_assistants |-> 2,
         needs_supervision |-> FALSE,
         can_supervise |-> <<"Associate Teacher", "Assistant">>]
    @@ "Associate Teacher" :>
        [rank |-> 2, can_teach |-> TRUE, max_assistants |-> 1,
         needs_supervision |-> FALSE,
         can_supervise |-> <<"Assistant">>]
    @@ "Assistant" :>
        [rank |-> 1, can_teach |-> FALSE, max_assistants |-> 0,
         needs_supervision |-> TRUE,
         can_supervise |-> <<>>]

\* PERMIT_LEVELS.get(level, {}).get(key, default)
permit_get(level, key, default) ==
    IF level \in DOMAIN PERMIT_LEVELS THEN PERMIT_LEVELS[level][key] ELSE default

\* [x for x in s if Test(x)]
Filter(s, Test(_)) == SelectSeq(s, Test)

\* StaffMember.query.filter_by(is_available=True).all()
available_staff_of(staff_table) == Filter(staff_table, LAMBDA s : s.is_available)

\* ------------------------------------------------ calculate_capacity_plan
\* a list of 12 entries, built at once
List12(F(_)) ==
    <<F(1), F(2), F(3), F(4), F(5), F(6), F(7), F(8), F(9), F(10), F(11), F(12)>>

\* the three factors of combination i: equal factors give the same float
Factors(age_mix, schedule_mix, days_mix, i) ==
    <<Get(age_mix, plan_combinations[i].age_group_type, 0),
      Get(schedule_mix, plan_combinations[i].schedule_type, 0),
      Get(days_mix, plan_combinations[i].day_pattern, 0)>>

\* raw_distribution before the remainder loop: the 12 raw counts
raw_counts(age_mix, schedule_mix, days_mix, total_children) ==
    List12(LAMBDA i :
        LET f == Factors(age_mix, schedule_mix, days_mix, i)
        IN RawCount(total_children, f[1], f[2], f[3]))

\* sorted(enumerate(raw_distribution), key=fraction, reverse=True): Python's
\* sort is stable, also under reverse=True
sorted_by_fraction(raw, fp) ==
    LET key == List12(LAMBDA i : FracKey(raw[i], fp[i]))
        pos == List12(LAMBDA i :
                 Cardinality({j \in 1..12 :
                     \/ KeyGreater(key[j], key[i])
                     \/ (key[j] = key[i] /\ j < i)}))
    IN List12(LAMBDA p : CHOOSE i \in 1..12 : pos[i] = p - 1)

\* the float rounding directions an evaluation may show, drawn where they can
\* change who receives a unit: one of -1, 0, 1 per distinct factor triple
\* among the combinations that share their non-zero fractional part with a
\* combination of different factors, when that group of equal fractions lies
\* across the cut-off position of the remainder loop
Roundings(age_mix, schedule_mix, days_mix, total_children) ==
    LET raw == raw_counts(age_mix, schedule_mix, days_mix, total_children)
        fac == List12(LAMBDA i : Factors(age_mix, schedule_mix, days_mix, i))
        frac == List12(LAMBDA i : FracKey(raw[i], 0))
        remainder == total_children - SumSeq(List12(LAMBDA i : IntPart(raw[i])))
        cut == IF remainder > 0 THEN remainder % 12 ELSE 0
        exact == sorted_by_fraction(raw, List12(LAMBDA i : 0))
        first == {exact[p] : p \in 1..cut}
        T == {i \in 1..12 :
                /\ frac[i] # <<0, 0, 0, 0>>
                /\ \E j \in 1..12 : fac[j] # fac[i] /\ frac[j] = frac[i]
                /\ \E j \in first : frac[j] = frac[i]
                /\ \E j \in (1..12) \ first : frac[j] = frac[i]}
        rep == List12(LAMBDA i :
                 CHOOSE j \in 1..12 :
                    /\ fac[j] = fac[i]
                    /\ \A k \in 1..(j - 1) : fac[k] # fac[i])
        R == {rep[i] : i \in T}
    IN {List12(LAMBDA i : IF i \in T THEN c[rep[i]] ELSE 0) : c \in [R -> {-1, 0, 1}]}

\* a remainder loop that hands every unit to the first entry of the sorted list
distribute_remainder_to_first(counts, sorted, i, remainder) ==
    IF i >= remainder THEN counts
    ELSE [counts EXCEPT ![sorted[1]] = @ + (remainder - i)]

\* a remainder loop that stops one unit short
RECURSIVE distribute_remainder_short(_, _, _, _)
distribute_remainder_short(counts, sorted, i, remainder) ==
    IF i >= remainder - 1 THEN counts
    ELSE LET idx == sorted[(i % Len(sorted)) + 1]
         IN distribute_remainder_short([counts EXCEPT ![idx] = @ + 1], sorted,
                                       i + 1, remainder)

\* for i in range(remainder): raw_distribution[sorted[i % 12]]['count'] += 1
RECURSIVE distribute_remainder(_, _, _, _)
distribute_remainder(counts, sorted, i, remainder) ==
    IF i >= remainder THEN counts
    ELSE LET idx == sorted[(i % Len(sorted)) + 1]
         IN distribute_remainder([counts EXCEPT ![idx] = @ + 1], sorted, i + 1, remainder)

\* the 12 final counts, in plan_combinations order
distribution_counts(age_mix, schedule_mix, days_mix, total_children, fp) ==
    LET raw == raw_counts(age_mix, schedule_mix, days_mix, total_children)
        floors == List12(LAMBDA i : IntPart(raw[i]))
        current_total == SumSeq(floors)
        remainder == total_children - current_total
        sorted == sorted_by_fraction(raw, fp)
    IN distribute_remainder(floors, sorted, 0, remainder)

get_children_by_day_pattern(distribution, pattern, age_type) ==
    SumSeq(List12(LAMBDA i :
        IF /\ distribution[i].day_pattern = pattern
           /\ distribution[i].age_group_type = age_type
        THEN distribution[i].children ELSE 0))

\* an attendance table whose Tuesday is built from the Mon/Wed/Fri pattern
daily_attendance_tuesday_mwf(distribution) ==
    LET full_infants  == get_children_by_day_pattern(distribution, "full", "infant")
        mwf_infants   == get_children_by_day_pattern(distribution, "mwf", "infant")
        tth_infants   == get_children_by_day_pattern(distribution, "tth", "infant")
        full_children == get_children_by_day_pattern(distribution, "full", "child")
        mwf_children  == get_children_by_day_pattern(distribution, "mwf", "child")
        tth_children  == get_children_by_day_pattern(distribution, "tth", "child")
        day(inf, ch)  == [infants |-> inf, children |-> ch, total |-> inf + ch]
    IN [Monday    |-> day(full_infants + mwf_infants, full_children + mwf_children),
        Tuesday   |-> day(full_infants + mwf_infants, full_children + mwf_children),
        Wednesday |-> day(full_infants + mwf_infants, full_children + mwf_children),
        Thursday  |-> day(full_infants + tth_infants, full_children + tth_children),
        Friday    |-> day(full_infants + mwf_infants, full_children + mwf_children)]

daily_attendance(distribution) ==
    LET full_infants  == get_children_by_day_pattern(distribution, "full", "infant")
        mwf_infants   == get_children_by_day_pattern(distribution, "mwf", "infant")
        tth_infants   == get_children_by_day_pattern(distribution, "tth", "infant")
        full_children == get_children_by_day_pattern(distribution, "full", "child")
        mwf_children  == get_children_by_day_pattern(distribution, "mwf", "child")
        tth_children  == get_children_by_day_pattern(distribution, "tth", "child")
        day(inf, ch)  == [infants |-> inf, children |-> ch, total |-> inf + ch]
    IN [Monday    |-> day(full_infants + mwf_infants, full_children + mwf_children),
        Tuesday   |-> day(full_infants + tth_infants, full_children + tth_children),
        Wednesday |-> day(full_infants + mwf_infants, full_children + mwf_children),
        Thursday  |-> day(full_infants + tth_infants, full_children + tth_children),
        Friday    |-> day(full_infants + mwf_infants, full_children + mwf_children)]

\* max(daily_attendance.items(), key=total) that keeps the last of equal days
RECURSIVE peak_day_last(_, _, _)
peak_day_last(attendance, n, best) ==
    IF n > Len(WEEKDAYS) THEN WEEKDAYS[best]
    ELSE peak_day_last(attendance, n + 1,
             IF attendance[WEEKDAYS[n]].total >= attendance[WEEKDAYS[best]].total
             THEN n ELSE best)

\* a choice of peak day that takes the first weekday whatever the attendance
peak_day_first_weekday(attendance, n, best) == WEEKDAYS[1]

\* max(daily_attendance.items(), key=total): the dict is walked in insertion
\* order and a later day replaces the best one only when it is greater
RECURSIVE peak_day(_, _, _)
peak_day(attendance, n, best) ==
    IF n > Len(WEEKDAYS) THEN WEEKDAYS[best]
    ELSE peak_day(attendance, n + 1,
             IF attendance[WEEKDAYS[n]].total > attendance[WEEKDAYS[best]].total
             THEN n ELSE best)

\* math.ceil(count / ratio) if count > 0 else 0
ceil_ratio(count, ratio) == IF count > 0 THEN -((-count) \div ratio) ELSE 0

staff_requirements(attendance) ==
    LET peak_day_name == peak_day(attendance, 2, 1)
        peak_attendance == attendance[peak_day_name]
        infant_teachers_needed == ceil_ratio(peak_attendance.infants, 4)
        child_teachers_needed == ceil_ratio(peak_attendance.children, 12)
        staff_at_15 == ceil_ratio(peak_attendance.children, 15)
        staff_at_18 == ceil_ratio(peak_attendance.children, 18)
    IN [peak_day |-> peak_day_name,
        peak_infants |-> peak_attendance.infants,
        peak_children |-> peak_attendance.children,
        peak_total |-> peak_attendance.total,
        infant_staff |-> [count |-> infant_teachers_needed, ratio |-> "1:4"],
        child_staff |-> [count |-> child_teachers_needed, ratio |-> "1:12"],
        total_teachers_needed |-> infant_teachers_needed + child_teachers_needed,
        enhanced_options |->
            IF peak_attendance.children > 0
            THEN <<[ratio |-> "1:15", teachers_needed |-> staff_at_15,
                    aides_needed |-> staff_at_15, total_staff |-> staff_at_15 * 2],
                   [ratio |-> "1:18", teachers_needed |-> staff_at_18,
                    aides_needed |-> staff_at_18, total_staff |-> staff_at_18 * 2]>>
            ELSE <<>>]

schedule_summary(distribution) ==
    LET children_of(schedule_type, age_type) ==
            SumSeq(List12(LAMBDA i :
                IF /\ distribution[i].schedule_type = schedule_type
                   /\ distribution[i].age_group_type = age_type
                THEN distribution[i].children ELSE 0))
        summary(inf, ch) == [infants |-> inf, children |-> ch, total |-> inf + ch]
    IN [core |-> summary(children_of("core", "infant"), children_of("core", "child")),
        extended |-> summary(children_of("extended", "infant"),
                             children_of("extended", "child"))]

\* ------------------------------------------------------------ labor costs
\* Money is held in cents and hours in half hours: hourly rates are entered
\* in whole cents and every shift is a whole number of half hours, so the
\* amounts before rounding are the exact fractions num / den.
\*
\* round(num / den, digits) for a positive den, in units of the last digit
\* kept.  The float nearest to a fraction that lies exactly half-way between
\* two such units falls on either side of it, so a tie yields both units.
round(num, den) ==
    LET q == num \div den
        r == num % den
    IN IF 2 * r < den THEN {q}
       ELSE IF 2 * r > den THEN {q + 1}
       ELSE {q, q + 1}

\* half hours of the three shifts
CORE_SHIFT_HOURS == 14

EXTENDED_AM_HOURS == 12

EXTENDED_PM_HOURS == 11

\* the weeks of a month, in hundredths
WEEKS_PER_MONTH == 433

\* the fallback hourly rates, in cents
DEFAULT_TEACHER_RATE == 2500

DEFAULT_AIDE_RATE == 1800

rank_of(s) == permit_get(s.permit_level, "rank", 0)

sum_hourly_rate(staff) == SumSeq([n \in 1..Len(staff) |-> staff[n].hourly_rate])

\* an average rate that takes every available staff member for a teacher
teacher_rate_of_all(available_staff) ==
    LET teachers == available_staff
    IN IF teachers # <<>>
       THEN [num |-> sum_hourly_rate(teachers), den |-> Len(teachers)]
       ELSE [num |-> DEFAULT_TEACHER_RATE, den |-> 1]

\* sum(s.hourly_rate for s in teachers) / len(teachers) if teachers else 25.00,
\* as the fraction num / den of cents
teacher_rate(available_staff) ==
    LET teachers == Filter(available_staff, LAMBDA s : rank_of(s) >= 3)
    IN IF teachers # <<>>
       THEN [num |-> sum_hourly_rate(teachers), den |-> Len(teachers)]
       ELSE [num |-> DEFAULT_TEACHER_RATE, den |-> 1]

aide_rate(available_staff) ==
    LET aides == Filter(available_staff, LAMBDA s : rank_of(s) < 3)
    IN IF aides # <<>>
       THEN [num |-> sum_hourly_rate(aides), den |-> Len(aides)]
       ELSE [num |-> DEFAULT_AIDE_RATE, den |-> 1]

\* the positions of the core shift and of the two extended shifts, and the
\* half hours worked in a day
positions(core_infants, core_children, extended_infants, extended_children) ==
    LET core_infant_staff == ceil_ratio(core_infants, 4)
        core_child_staff == ceil_ratio(core_children, 12)
        extended_infant_staff == ceil_ratio(extended_infants, 4)
        extended_child_staff == ceil_ratio(extended_children, 12)
        core_positions == core_infant_staff + core_child_staff
        extended_positions_per_shift == extended_infant_staff + extended_child_staff
        extended_total_positions == extended_positions_per_shift * 2
        core_daily_hours == core_positions * CORE_SHIFT_HOURS
        extended_daily_hours ==
            extended_positions_per_shift * EXTENDED_AM_HOURS
            + extended_positions_per_shift * EXTENDED_PM_HOURS
    IN [core_positions |-> core_positions,
        extended_positions_per_shift |-> extended_positions_per_shift,
        extended_total_positions |-> extended_total_positions,
        total_positions |-> core_positions + extended_total_positions,
        total_daily_hours |-> core_daily_hours + extended_daily_hours]

\* the labor_costs section: hours in tenths, money in cents; one record per
\* way the ties of the roundings fall
labor_costs(summary, staff_table, total_children) ==
    LET available_staff == available_staff_of(staff_table)
        teachers == Filter(available_staff, LAMBDA s : rank_of(s) >= 3)
        aides == Filter(available_staff, LAMBDA s : rank_of(s) < 3)
        avg_teacher_rate == teacher_rate(available_staff)
        avg_aide_rate == aide_rate(available_staff)
        p == positions(summary.core.infants, summary.core.children,
                       summary.extended.infants, summary.extended.children)
        \* daily_labor_cost = total_daily_hours * avg_rate, as daily_num / daily_den
        daily_num == p.total_daily_hours * avg_teacher_rate.num
        daily_den == 2 * avg_teacher_rate.den
        \* monthly_labor_cost = daily_labor_cost * 5 * 4.33, in lowest terms of
        \* the constants: 5 * 433 / 100 = 433 / 20
        monthly_num == daily_num * WEEKS_PER_MONTH
        monthly_den == daily_den * 20
    IN {[available_staff |->
            [total |-> Len(available_staff), teachers |-> Len(teachers),
             aides |-> Len(aides), avg_teacher_rate |-> t[1], avg_aide_rate |-> t[2]],
         shifts |->
            [core |-> [hours |-> CORE_SHIFT_HOURS, staff_needed |-> p.core_positions],
             extended_am |-> [hours |-> EXTENDED_AM_HOURS,
                              staff_needed |-> p.extended_positions_per_shift],
             extended_pm |-> [hours |-> EXTENDED_PM_HOURS,
                              staff_needed |-> p.extended_positions_per_shift]],
         positions |->
            [core_total |-> p.core_positions,
             extended_total |-> p.extended_total_positions,
             grand_total |-> p.total_positions],
         hours |-> [daily |-> t[3], weekly |-> t[4]],
         costs |-> [daily |-> t[5], weekly |-> t[6], monthly |-> t[7],
                    cost_per_child_monthly |-> t[8]]] :
        t \in round(avg_teacher_rate.num, avg_teacher_rate.den)
              \X round(avg_aide_rate.num, avg_aide_rate.den)
              \X round(p.total_daily_hours * 10, 2)
              \X round(p.total_daily_hours * 5 * 10, 2)
              \X round(daily_num, daily_den)
              \X round(daily_num * 5, daily_den)
              \X round(monthly_num, monthly_den)
              \X (IF total_children > 0
                  THEN round(monthly_num, monthly_den * total_children)
                  ELSE {0})}

\* a daily labor that counts the extended positions once
calculate_daily_labor_single_extended(core_infants, core_children, extended_infants, extended_children, staff_table) ==
    LET core_positions == ceil_ratio(core_infants, 4) + ceil_ratio(core_children, 12)
        extended_positions ==
            ceil_ratio(extended_infants, 4) + ceil_ratio(extended_children, 12)
        total_hours == core_positions * CORE_SHIFT_HOURS
                       + extended_positions * EXTENDED_AM_HOURS
        avg_rate == teacher_rate(available_staff_of(staff_table))
    IN {[core_staff |-> core_positions,
         core_hours |-> core_positions * CORE_SHIFT_HOURS,
         extended_staff |-> extended_positions,
         extended_am_hours |-> extended_positions * EXTENDED_AM_HOURS,
         extended_pm_hours |-> 0,
         total_positions |-> core_positions + extended_positions,
         total_hours |-> t[1], daily_cost |-> t[2], avg_rate |-> t[3]] :
        t \in round(total_hours * 10, 2)
              \X round(total_hours * avg_rate.num, 2 * avg_rate.den)
              \X round(avg_rate.num, avg_rate.den)}

\* the values a call may return.  core_hours, extended_am_hours and
\* extended_pm_hours are in half hours, total_hours is in tenths of an hour,
\* daily_cost and avg_rate are in cents.
calculate_daily_labor(core_infants, core_children, extended_infants, extended_children, staff_table) ==
    LET core_infant_staff == ceil_ratio(core_infants, 4)
        core_child_staff == ceil_ratio(core_children, 12)
        extended_infant_staff == ceil_ratio(extended_infants, 4)
        extended_child_staff == ceil_ratio(extended_children, 12)
        core_positions == core_infant_staff + core_child_staff
        extended_positions == extended_infant_staff + extended_child_staff
        core_hours == core_positions * CORE_SHIFT_HOURS
        extended_am_hours == extended_positions * EXTENDED_AM_HOURS
        extended_pm_hours == extended_positions * EXTENDED_PM_HOURS
        total_hours == core_hours + extended_am_hours + extended_pm_hours
        avg_rate == teacher_rate(available_staff_of(staff_table))
    IN {[core_staff |-> core_positions,
         core_hours |-> core_hours,
         extended_staff |-> extended_positions,
         extended_am_hours |-> extended_am_hours,
         extended_pm_hours |-> extended_pm_hours,
         total_positions |-> core_positions + (extended_positions * 2),
         total_hours |-> t[1], daily_cost |-> t[2], avg_rate |-> t[3]] :
        t \in round(total_hours * 10, 2)
              \X round(total_hours * avg_rate.num, 2 * avg_rate.den)
              \X round(avg_rate.num, avg_rate.den)}

\* the values a call may return: they differ where a rounding meets a tie
calculate_capacity_plan(age_mix, schedule_mix, days_mix, total_children, fp, staff_table) ==
    LET counts == distribution_counts(age_mix, schedule_mix, days_mix, total_children, fp)
        distribution ==
            List12(LAMBDA i :
                [schedule_type  |-> plan_combinations[i].schedule_type,
                 day_pattern    |-> plan_combinations[i].day_pattern,
                 age_group_type |-> plan_combinations[i].age_group_type,
                 children       |-> counts[i]])
        attendance == daily_attendance(distribution)
        summary == schedule_summary(distribution)
        requirements == staff_requirements(attendance)
    IN {[inputs |-> [total_children |-> total_children, age_mix |-> age_mix,
                     schedule_mix |-> schedule_mix, days_mix |-> days_mix],
         distribution |-> distribution,
         daily_attendance |-> attendance,
         schedule_summary |-> summary,
         staff_requirements |-> requirements,
         labor_costs |-> costs] :
        costs \in labor_costs(summary, staff_table, total_children)}

\* ------------------------------------------------------ CapacitySettings
\* a new row with the column defaults
CapacitySettingsDefaults ==
    [total_children |-> 50, max_capacity |-> 100,
     infant_percent |-> Pct(20), child_percent |-> Pct(80),
     core_percent |-> Pct(50), extended_percent |-> Pct(50),
     full_percent |-> Pct(60), mwf_percent |-> Pct(30), tth_percent |-> Pct(10)]

\* CapacitySettings.get_or_create on table t: the table afterwards; the
\* settings object is its first row
get_or_create(t) == IF Len(t) = 0 THEN <<CapacitySettingsDefaults>> ELSE t

get_age_mix(row) == [infant |-> row.infant_percent, child |-> row.child_percent]

get_schedule_mix(row) == [core |-> row.core_percent, extended |-> row.extended_percent]

get_days_mix(row) ==
    [full |-> row.full_percent, mwf |-> row.mwf_percent, tth |-> row.tth_percent]

\* ------------------------------------------------- capacity-planner routes
DefaultAgeMix == [infant |-> Pct(20), child |-> Pct(80)]

DefaultScheduleMix == [core |-> Pct(50), extended |-> Pct(50)]

DefaultDaysMix == [full |-> Pct(60), mwf |-> Pct(30), tth |-> Pct(10)]

\* a validation that lets a mix pass when it is within one percentage point
mix_total_invalid_loose(mix) == Abs(SumValues(mix) - Hundred) > PctScale

\* abs(sum(mix.values()) - 100) > 0.01
mix_total_invalid(mix) == Abs(SumValues(mix) - Hundred) * 100 > PctScale

\* the 400 response of the first failing validation, NULL when all three pass
validate_mixes(age_mix, schedule_mix, days_mix) ==
    IF mix_total_invalid(age_mix)
    THEN [status |-> 400, body |-> [error |-> "Age mix must total 100%"]]
    ELSE IF mix_total_invalid(schedule_mix)
    THEN [status |-> 400, body |-> [error |-> "Schedule mix must total 100%"]]
    ELSE IF mix_total_invalid(days_mix)
    THEN [status |-> 400, body |-> [error |-> "Days mix must total 100%"]]
    ELSE NULL

\* GET /capacity-planner/settings
get_capacity_settings(t) ==
    LET t1 == get_or_create(t)
        settings == t1[1]
    IN [table |-> t1,
        response |->
            [status |-> 200,
             body |-> [total_children |-> settings.total_children,
                       max_capacity |-> settings.max_capacity,
                       age_mix |-> get_age_mix(settings),
                       schedule_mix |-> get_schedule_mix(settings),
                       days_mix |-> get_days_mix(settings)]]]

\* POST /capacity-planner/settings with JSON body data
save_capacity_settings(t, data) ==
    LET age_mix == Get(data, "age_mix", DefaultAgeMix)
        schedule_mix == Get(data, "schedule_mix", DefaultScheduleMix)
        days_mix == Get(data, "days_mix", DefaultDaysMix)
        total_children == Get(data, "total_children", 50)
        max_capacity == Get(data, "max_capacity", 100)
        invalid == validate_mixes(age_mix, schedule_mix, days_mix)
        t1 == get_or_create(t)
        settings ==
            [t1[1] EXCEPT
                !.total_children = total_children,
                !.max_capacity = max_capacity,
                !.infant_percent = Get(age_mix, "infant", Pct(20)),
                !.child_percent = Get(age_mix, "child", Pct(80)),
                !.core_percent = Get(schedule_mix, "core", Pct(50)),
                !.extended_percent = Get(schedule_mix, "extended", Pct(50)),
                !.full_percent = Get(days_mix, "full", Pct(60)),
                !.mwf_percent = Get(days_mix, "mwf", Pct(30)),
                !.tth_percent = Get(days_mix, "tth", Pct(10))]
    IN IF invalid # NULL
       THEN [table |-> t, response |-> invalid]
       ELSE [table |-> [t1 EXCEPT ![1] = settings],
             response |-> [status |-> 200,
                           body |-> [success |-> TRUE, message |-> "Settings saved"]]]

\* POST /capacity-planner/calculate with JSON body data: the outcomes of the
\* request, one per value the plan may take
calculate_capacity(t, data, fp, staff_table) ==
    LET age_mix == Get(data, "age_mix", DefaultAgeMix)
        schedule_mix == Get(data, "schedule_mix", DefaultScheduleMix)
        days_mix == Get(data, "days_mix", DefaultDaysMix)
        total_children == Get(data, "total_children", 50)
        invalid == validate_mixes(age_mix, schedule_mix, days_mix)
        t1 == get_or_create(t)
        settings ==
            [t1[1] EXCEPT
                !.total_children = total_children,
                !.infant_percent = Get(age_mix, "infant", Pct(20)),
                !.child_percent = Get(age_mix, "child", Pct(80)),
                !.core_percent = Get(schedule_mix, "core", Pct(50)),
                !.extended_percent = Get(schedule_mix, "extended", Pct(50)),
                !.full_percent = Get(days_mix, "full", Pct(60)),
                !.mwf_percent = Get(days_mix, "mwf", Pct(30)),
                !.tth_percent = Get(days_mix, "tth", Pct(10))]
    IN IF invalid # NULL
       THEN {[table |-> t, response |-> invalid]}
       ELSE {[table |-> [t1 EXCEPT ![1] = settings],
              response |-> [status |-> 200, body |-> plan]] :
             plan \in calculate_capacity_plan(age_mix, schedule_mix, days_mix,
                                              total_children, fp, staff_table)}

\* ------------------------------------------------------------ projections
\* every way of taking one element from each set of a list of sets
RECURSIVE Product(_)
Product(sets) ==
    IF sets = <<>> THEN {<<>>}
    ELSE {<<h>> \o t : h \in Head(sets), t \in Product(Tail(sets))}

\* round(x) and round(x, 2) of an exact fixed-point product: x as sign and
\* magnitude, mag[4] its integer part; a fraction of exactly one half yields
\* both neighbours, as for round(num, den)
round_raw(raw) ==
    LET frac == <<raw.mag[3], raw.mag[2], raw.mag[1]>>
        half == <<Hundred \div 2, 0, 0>>
        below == \E n \in 1..3 : frac[n] < half[n] /\ \A m \in 1..(n - 1) : frac[m] = half[m]
    IN IF below THEN {raw.sign * raw.mag[4]}
       ELSE IF frac = half THEN {raw.sign * raw.mag[4], raw.sign * (raw.mag[4] + 1)}
       ELSE {raw.sign * (raw.mag[4] + 1)}

\* round(num / den * 10^digits) by long division, so that no product leaves
\* the 32-bit range
RECURSIVE round_scaled(_, _, _)
round_scaled(num, den, digits) ==
    IF digits = 0 THEN round(num, den)
    ELSE LET q == num \div den
             r == num % den
             scale == IF digits = 1 THEN 10 ELSE IF digits = 2 THEN 100 ELSE 1000
         IN {q * scale + x : x \in round_scaled(r * 10, den, digits - 1)}

\* CorePlan.query.filter_by(is_active=True, is_fixed_plan=True).all()
active_fixed_plans(plan_table) ==
    Filter(plan_table, LAMBDA plan : plan.is_active /\ plan.is_fixed_plan)

\* plan_lookup.get(key): a later plan of the same key replaces an earlier one
plan_lookup_get(plans, key) ==
    LET with_key == Filter(plans, LAMBDA plan :
                        /\ plan.schedule_type = key.schedule_type
                        /\ plan.day_pattern = key.day_pattern
                        /\ plan.age_group_type = key.age_group_type)
    IN IF with_key = <<>> THEN NULL ELSE with_key[Len(with_key)]

\* line_revenue = child_count * price of the 12 combinations, in cents
line_revenues(child_counts, plans) ==
    List12(LAMBDA i :
        LET plan == plan_lookup_get(plans, plan_combinations[i])
            price == IF plan # NULL THEN plan.base_price ELSE 0
        IN child_counts[i] * price)

\* the values a call may return: total in cents, and the child counts used
\* (the breakdown lists those above 0)
calculate_revenue_by_plan(settings, plan_table) ==
    LET plans == active_fixed_plans(plan_table)
        raw == raw_counts(get_age_mix(settings), get_schedule_mix(settings),
                          get_days_mix(settings), settings.total_children)
    IN {[total |-> SumSeq(line_revenues(child_counts, plans)),
         children |-> child_counts,
         breakdown |->
            SelectSeq(List12(LAMBDA i :
                [schedule_type |-> plan_combinations[i].schedule_type,
                 day_pattern |-> plan_combinations[i].day_pattern,
                 age_group_type |-> plan_combinations[i].age_group_type,
                 children |-> child_counts[i],
                 revenue |-> line_revenues(child_counts, plans)[i]]),
                LAMBDA line : line.children > 0)] :
        child_counts \in Product(List12(LAMBDA i : round_raw(raw[i])))}

\* line_total = round(bucket_count * cost.monthly_rate, 2) of each active cost
per_child_line_totals(settings, per_child_costs) ==
    [n \in 1..Len(per_child_costs) |->
        LET cost == per_child_costs[n]
            age_pct == IF cost.age_group_type = "infant"
                       THEN settings.infant_percent ELSE settings.child_percent
            sched_pct == IF cost.schedule_type = "core"
                         THEN settings.core_percent ELSE settings.extended_percent
            bucket_count == RawCount(settings.total_children, age_pct, sched_pct, Hundred)
        IN round_raw([sign |-> bucket_count.sign,
                      mag |-> MulDigits(bucket_count.mag, cost.monthly_rate)])]

\* the totals a call may return, in cents; the caller hands in the active costs
calculate_per_child_expenses(settings, per_child_costs) ==
    {SumSeq(line_totals) :
        line_totals \in Product(per_child_line_totals(settings, per_child_costs))}

\* den without its factors of two
RECURSIVE odd_part(_)
odd_part(den) == IF den % 2 = 0 THEN odd_part(den \div 2) ELSE den

\* the float nearest to num / den is num / den itself (for the magnitudes of
\* money: the precision of a float is never exhausted by them)
is_float(num, den) == num % odd_part(den) = 0

\* x > 0 for a difference x of sums of floats: a difference of exactly zero
\* comes out as zero when the amounts summed are floats themselves, and as
\* zero or as a rounding error of either sign when they are not
positive(x, exact) == IF x # 0 THEN {x > 0} ELSE IF exact THEN {FALSE} ELSE BOOLEAN

\* break_even_children, all amounts in cents.  revenue_per_child and
\* variable_cost_per_child are the floats nearest to revenue / n and
\* (labor + variable) / n; they compare as the exact quotients do.  The
\* quotient total_fixed / (their difference) is exactly
\* total_fixed * n / margin; math.ceil of a float that misses a whole
\* quotient from above is one more than that quotient, which can happen
\* unless every intermediate value is a float itself.
break_even(total_children, monthly_revenue, labor_monthly, total_variable, total_fixed, fixed_is_float) ==
    LET margin == monthly_revenue - (labor_monthly + total_variable)
        num == total_fixed * total_children
        den == 100 * total_children
        exact == /\ fixed_is_float
                 /\ is_float(labor_monthly, 100)
                 /\ is_float(total_variable, 100)
                 /\ is_float(monthly_revenue, den)
                 /\ is_float(labor_monthly + total_variable, den)
    IN IF total_children > 0 /\ margin > 0
       THEN IF num % margin = 0 /\ total_fixed # 0 /\ ~exact
            THEN {num \div margin, (num \div margin) + 1}
            ELSE {-((-num) \div margin)}
       ELSE {0}

\* the settings table after a call and the values it may return; money in
\* cents, percentages in tenths of a percentage point.  fixed_by_category and
\* variable_breakdown, which regroup the same amounts, are left out.
calculate_projections(settings_table, plan_table, expense_table, cost_table, staff_table, fp) ==
    LET table == get_or_create(settings_table)
        settings == table[1]
        fixed_expenses == Filter(expense_table, LAMBDA e : e.is_active)
        total_fixed == SumSeq([n \in 1..Len(fixed_expenses) |->
                                  fixed_expenses[n].monthly_amount])
        fixed_is_float == \A n \in 1..Len(fixed_expenses) :
                              is_float(fixed_expenses[n].monthly_amount, 100)
        per_child_costs == Filter(cost_table, LAMBDA cost : cost.is_active)
        total_children == settings.total_children
        max_capacity == IF settings.max_capacity # 0 THEN settings.max_capacity ELSE 100
    IN {[table |-> table,
         result |->
            LET monthly_revenue == o[1][1].total
                total_variable == o[1][2]
                labor_monthly == o[1][3].labor_costs.costs.monthly
                total_expenses == labor_monthly + total_fixed + total_variable
                monthly_profit == monthly_revenue - total_expenses
                break_even_children == o[2]
            IN [summary |->
                    [monthly_revenue |-> monthly_revenue,
                     monthly_expenses |-> total_expenses,
                     monthly_profit |-> monthly_profit,
                     annual_revenue |-> monthly_revenue * 12,
                     annual_expenses |-> total_expenses * 12,
                     annual_profit |-> monthly_profit * 12,
                     profit_margin_pct |-> o[3],
                     is_profitable |-> o[8]],
                revenue |->
                    [total |-> monthly_revenue,
                     breakdown |-> o[1][1].breakdown,
                     per_child |-> o[5]],
                expenses |->
                    [labor |-> labor_monthly,
                     fixed |-> total_fixed,
                     variable |-> total_variable,
                     total |-> total_expenses,
                     per_child |-> o[6]],
                metrics |->
                    [labor_pct_of_revenue |-> o[4],
                     revenue_per_child |-> o[5],
                     cost_per_child |-> o[6],
                     break_even_children |-> break_even_children,
                     current_enrollment |-> total_children,
                     utilization_pct |-> o[7],
                     margin_above_break_even |-> total_children - break_even_children],
                enrollment |->
                    [total |-> total_children,
                     infant_pct |-> settings.infant_percent,
                     child_pct |-> settings.child_percent,
                     core_pct |-> settings.core_percent,
                     extended_pct |-> settings.extended_percent]]] :
        o \in UNION {
            {<<rev, var, plan>>} \X
            break_even(total_children, rev.total, plan.labor_costs.costs.monthly,
                       var, total_fixed, fixed_is_float) \X
            (IF rev.total > 0
             THEN round_scaled(rev.total - (plan.labor_costs.costs.monthly
                                            + total_fixed + var), rev.total, 3)
             ELSE {0}) \X
            (IF rev.total > 0
             THEN round_scaled(plan.labor_costs.costs.monthly, rev.total, 3)
             ELSE {0}) \X
            (IF total_children > 0 THEN round(rev.total, total_children) ELSE {0}) \X
            (IF total_children > 0
             THEN round(plan.labor_costs.costs.monthly + total_fixed + var,
                        total_children)
             ELSE {0}) \X
            (IF max_capacity > 0
             THEN round_scaled(total_children, max_capacity, 3)
             ELSE {0}) \X
            positive(rev.total - (plan.labor_costs.costs.monthly + total_fixed + var),
                     /\ fixed_is_float
                     /\ is_float(plan.labor_costs.costs.monthly, 100)
                     /\ is_float(var, 100)) :
            rev \in calculate_revenue_by_plan(settings, plan_table),
            var \in calculate_per_child_expenses(settings, per_child_costs),
            plan \in calculate_capacity_plan(get_age_mix(settings),
                        get_schedule_mix(settings), get_days_mix(settings),
                        total_children, fp, staff_table)}}

\* a sensitivity that applies the multiplier to the expenses of a price change
new_amounts_price_scales_expenses(base, variable, change_pct) ==
    LET m == 100 + change_pct
    IN IF variable = "price"
       THEN [new_revenue |-> base.revenue.total * m,
             new_expenses |-> base.expenses.total * m,
             exact |-> change_pct = 0]
       ELSE NULL

\* a sensitivity whose labor change scales the fixed expense as well
new_amounts_labor_scales_fixed(base, variable, change_pct) ==
    LET m == 100 + change_pct
        revenue == base.revenue.total
        labor == base.expenses.labor
        fixed == base.expenses.fixed
        variable_expense == base.expenses.variable
    IN IF variable = "enrollment"
       THEN [new_revenue |-> revenue * m,
             new_expenses |-> labor * m + fixed * 100 + variable_expense * m,
             exact |-> change_pct = 0]
       ELSE IF variable = "labor"
       THEN [new_revenue |-> revenue * 100,
             new_expenses |-> labor * m + fixed * m + variable_expense * 100,
             exact |-> change_pct = 0]
       ELSE IF variable = "fixed_expenses"
       THEN [new_revenue |-> revenue * 100,
             new_expenses |-> labor * 100 + fixed * m + variable_expense * 100,
             exact |-> change_pct = 0]
       ELSE NULL

\* new_revenue and new_expenses before rounding, in hundredths of a cent: the
\* multiplier 1 + change_pct / 100 is (100 + change_pct) / 100.  exact: the
\* two are computed without a rounding error, which is so when what is
\* multiplied is zero or the multiplier is 1, and the amounts added are
\* floats themselves.  NULL for a variable that none of the branches names.
new_amounts(base, variable, change_pct) ==
    LET m == 100 + change_pct
        revenue == base.revenue.total
        labor == base.expenses.labor
        fixed == base.expenses.fixed
        variable_expense == base.expenses.variable
        unscaled(amounts) == change_pct = 0 \/ \A x \in amounts : x = 0
        sum_exact == /\ is_float(labor, 100)
                     /\ is_float(fixed, 100)
                     /\ is_float(variable_expense, 100)
    IN IF variable = "enrollment"
       THEN [new_revenue |-> revenue * m,
             new_expenses |-> labor * m + fixed * 100 + variable_expense * m,
             exact |-> unscaled({revenue, labor, variable_expense}) /\ sum_exact]
       ELSE IF variable = "price"
       THEN [new_revenue |-> revenue * m,
             new_expenses |-> base.expenses.total * 100,
             exact |-> unscaled({revenue})]
       ELSE IF variable = "labor"
       THEN [new_revenue |-> revenue * 100,
             new_expenses |-> labor * m + fixed * 100 + variable_expense * 100,
             exact |-> unscaled({labor}) /\ sum_exact]
       ELSE IF variable = "fixed_expenses"
       THEN [new_revenue |-> revenue * 100,
             new_expenses |-> labor * 100 + fixed * m + variable_expense * 100,
             exact |-> unscaled({fixed}) /\ sum_exact]
       ELSE NULL

\* the settings table after a call and the values it may return; result is
\* NULL where the code returns None
calculate_sensitivity(settings_table, base_projections, variable, change_pct) ==
    LET table == get_or_create(settings_table)
        amounts == new_amounts(base_projections, variable, change_pct)
    IN IF amounts = NULL
       THEN {[table |-> table, result |-> NULL]}
       ELSE LET new_profit == amounts.new_revenue - amounts.new_expenses
                profit_change ==
                    new_profit - base_projections.summary.monthly_profit * 100
            IN {[table |-> table,
                 result |->
                    [variable |-> variable,
                     change_pct |-> change_pct,
                     new_revenue |-> t[1],
                     new_expenses |-> t[2],
                     new_profit |-> t[3],
                     profit_change |-> t[4],
                     is_profitable |-> t[5]]] :
                t \in round(amounts.new_revenue, 100)
                      \X round(amounts.new_expenses, 100)
                      \X round(new_profit, 100)
                      \X round(profit_change, 100)
                      \X positive(new_profit, amounts.exact)}

\* GET /projections/data
projections_data(settings_table, plan_table, expense_table, cost_table, staff_table, fp) ==
    {[table |-> o.table, response |-> [status |-> 200, body |-> o.result]] :
        o \in calculate_projections(settings_table, plan_table, expense_table,
                                    cost_table, staff_table, fp)}

SENSITIVITY_VARIABLES == <<"enrollment", "price", "labor", "fixed_expenses">>

SENSITIVITY_CHANGES == <<-20, -10, 0, 10, 20>>

\* the lists of a list, joined
RECURSIVE Flatten(_)
Flatten(seqs) == IF seqs = <<>> THEN <<>> ELSE Head(seqs) \o Flatten(Tail(seqs))

\* GET /projections/sensitivity; `if result:` drops a result of None
projections_sensitivity(settings_table, plan_table, expense_table, cost_table, staff_table, fp) ==
    UNION {
        {[table |-> o.table,
          response |->
             [status |-> 200,
              body |-> [base |-> o.result,
                        sensitivity |->
                           [v \in 1..Len(SENSITIVITY_VARIABLES) |->
                               [variable |-> SENSITIVITY_VARIABLES[v],
                                scenarios |-> Flatten(scenarios[v])]]]]] :
         scenarios \in Product(
            [v \in 1..Len(SENSITIVITY_VARIABLES) |->
                Product([c \in 1..Len(SENSITIVITY_CHANGES) |->
                    {IF x.result = NULL THEN <<>> ELSE <<x.result>> :
                        x \in calculate_sensitivity(o.table, o.result,
                                  SENSITIVITY_VARIABLES[v], SENSITIVITY_CHANGES[c])}])])} :
        o \in calculate_projections(settings_table, plan_table, expense_table,
                                    cost_table, staff_table, fp)}

\* ----------------------------------------------------------- schedule views
\* the day-pattern test of both views: the plan applies to the day
applies_to_day(day_pattern, day_name) ==
    \/ day_pattern = "full"
    \/ day_pattern = "mwf" /\ day_name \in {"Monday", "Wednesday", "Friday"}
    \/ day_pattern = "tth" /\ day_name \in {"Tuesday", "Thursday"}

\* int(count * (part / whole)): the floor of count * part / whole, except
\* that a float ratio that is not part / whole itself may leave a product
\* which ought to be a whole number just below it
int_share(count, part, whole) ==
    LET q == (count * part) \div whole
    IN IF (count * part) % whole = 0 /\ q > 0 /\ ~is_float(part, whole)
       THEN {q - 1, q}
       ELSE {q}

\* core_infants, extended_infants, core_children, extended_children of the
\* weekly view: the facility-wide core share applied to the day's attendance
day_split(day_attendance, summary) ==
    LET total_enrolled == summary.core.total + summary.extended.total
        share(count) == IF total_enrolled > 0
                        THEN int_share(count, summary.core.total, total_enrolled)
                        ELSE int_share(count, 1, 2)
    IN IF day_attendance.total > 0
       THEN {[core_infants |-> ci, extended_infants |-> day_attendance.infants - ci,
              core_children |-> cc, extended_children |-> day_attendance.children - cc] :
                ci \in share(day_attendance.infants),
                cc \in share(day_attendance.children)}
       ELSE {[core_infants |-> 0, extended_infants |-> 0,
              core_children |-> 0, extended_children |-> 0]}

\* the distribution entries that apply to the day and have children, then
\* consolidated by (age_group_type, schedule_type) in the order of their
\* first entries, the counts added up
consolidated(distribution, day_name) ==
    LET applies(i) == /\ applies_to_day(distribution[i].day_pattern, day_name)
                      /\ distribution[i].children > 0
        same(i, j) == /\ distribution[i].age_group_type = distribution[j].age_group_type
                      /\ distribution[i].schedule_type = distribution[j].schedule_type
        first == SelectSeq(List12(LAMBDA i : i),
                    LAMBDA i : applies(i) /\ \A j \in 1..(i - 1) : ~(applies(j) /\ same(i, j)))
    IN [n \in 1..Len(first) |->
          [age_group_type |-> distribution[first[n]].age_group_type,
           schedule_type |-> distribution[first[n]].schedule_type,
           count |-> SumSeq(List12(LAMBDA j :
                        IF applies(j) /\ same(first[n], j)
                        THEN distribution[j].children ELSE 0))]]

\* the shift bars of a day's labor
staff_shifts(labor) ==
    (IF labor.core_staff > 0
     THEN <<[shift_type |-> "core", count |-> labor.core_staff,
             start_minutes |-> 510, end_minutes |-> 930]>>
     ELSE <<>>)
    \o (IF labor.extended_staff > 0
        THEN <<[shift_type |-> "extended_am", count |-> labor.extended_staff,
                start_minutes |-> 420, end_minutes |-> 780],
               [shift_type |-> "extended_pm", count |-> labor.extended_staff,
                start_minutes |-> 750, end_minutes |-> 1080]>>
        ELSE <<>>)

\* max() over the values seen
max_value(values) == CHOOSE x \in values : \A y \in values : y <= x

\* range(420, 1081, 15)
TIMELINE_TICKS == [n \in 1..45 |-> 420 + 15 * (n - 1)]

\* a timeline that counts the extended positions once in the handoff
timeline_single_handoff(core_students, extended_students, core_staff_count, extended_staff_count) ==
    LET interval(minutes) ==
            [time |-> minutes,
             students |->
                (IF 450 <= minutes /\ minutes < 1050 THEN extended_students ELSE 0)
                + (IF 540 <= minutes /\ minutes < 900 THEN core_students ELSE 0),
             staff |->
                (IF 420 <= minutes /\ minutes < 750 THEN extended_staff_count ELSE 0)
                + (IF 510 <= minutes /\ minutes < 930 THEN core_staff_count ELSE 0)
                + (IF 750 <= minutes /\ minutes < 1080 THEN extended_staff_count ELSE 0)]
        intervals == [n \in 1..Len(TIMELINE_TICKS) |-> interval(TIMELINE_TICKS[n])]
    IN [intervals |-> intervals,
        earliest |-> 420,
        latest |-> 1080,
        max_students |-> max_value({0} \cup {intervals[n].students : n \in 1..Len(intervals)}),
        max_staff |-> max_value({0} \cup {intervals[n].staff : n \in 1..Len(intervals)})]

\* a timeline whose extended morning staff arrive at 8:00 AM
timeline_late_opening(core_students, extended_students, core_staff_count, extended_staff_count) ==
    LET interval(minutes) ==
            [time |-> minutes,
             students |->
                (IF 450 <= minutes /\ minutes < 1050 THEN extended_students ELSE 0)
                + (IF 540 <= minutes /\ minutes < 900 THEN core_students ELSE 0),
             staff |->
                (IF 480 <= minutes /\ minutes < 780 THEN extended_staff_count ELSE 0)
                + (IF 510 <= minutes /\ minutes < 930 THEN core_staff_count ELSE 0)
                + (IF 750 <= minutes /\ minutes < 1080 THEN extended_staff_count ELSE 0)]
        intervals == [n \in 1..Len(TIMELINE_TICKS) |-> interval(TIMELINE_TICKS[n])]
    IN [intervals |-> intervals,
        earliest |-> 420,
        latest |-> 1080,
        max_students |-> max_value({0} \cup {intervals[n].students : n \in 1..Len(intervals)}),
        max_staff |-> max_value({0} \cup {intervals[n].staff : n \in 1..Len(intervals)})]

\* the occupancy of a day in 15-minute intervals from 7:00 AM to 6:00 PM
timeline(core_students, extended_students, core_staff_count, extended_staff_count) ==
    LET interval(minutes) ==
            [time |-> minutes,
             students |->
                (IF 450 <= minutes /\ minutes < 1050 THEN extended_students ELSE 0)
                + (IF 540 <= minutes /\ minutes < 900 THEN core_students ELSE 0),
             staff |->
                (IF 420 <= minutes /\ minutes < 780 THEN extended_staff_count ELSE 0)
                + (IF 510 <= minutes /\ minutes < 930 THEN core_staff_count ELSE 0)
                + (IF 750 <= minutes /\ minutes < 1080 THEN extended_staff_count ELSE 0)]
        intervals == [n \in 1..Len(TIMELINE_TICKS) |-> interval(TIMELINE_TICKS[n])]
    IN [intervals |-> intervals,
        earliest |-> 420,
        latest |-> 1080,
        max_students |-> max_value({0} \cup {intervals[n].students : n \in 1..Len(intervals)}),
        max_staff |-> max_value({0} \cup {intervals[n].staff : n \in 1..Len(intervals)})]

\* schedule_data[day_name] of the weekly view: one record per way the float
\* operations of the day may fall
schedule_day(capacity_data, day_name, staff_table) ==
    LET day_attendance == capacity_data.daily_attendance[day_name]
    IN {[day_name |-> day_name,
         total_children |-> day_attendance.total,
         infants |-> day_attendance.infants,
         children |-> day_attendance.children,
         enrollments |-> consolidated(capacity_data.distribution, day_name),
         labor |-> x[2],
         timeline |-> timeline(x[1].core_infants + x[1].core_children,
                               x[1].extended_infants + x[1].extended_children,
                               x[2].core_staff, x[2].extended_staff),
         staff_shifts |-> staff_shifts(x[2])] :
        x \in UNION {{split} \X calculate_daily_labor(split.core_infants,
                                    split.core_children, split.extended_infants,
                                    split.extended_children, staff_table) :
                     split \in day_split(day_attendance, capacity_data.schedule_summary)}}

\* the operations of a request are deterministic: days of the same
\* attendance get the same figures
same_figures(d1, d2) ==
    [d1 EXCEPT !.day_name = "", !.enrollments = <<>>]
        = [d2 EXCEPT !.day_name = "", !.enrollments = <<>>]

\* a weekly summary whose weekly cost is five times the peak day's cost
weekly_labor_from_peak(schedule_data) ==
    LET attendance == [d \in DOMAIN schedule_data |->
                          [total |-> schedule_data[d].total_children]]
        peak_labor == schedule_data[peak_day(attendance, 2, 1)].labor
        total_weekly_cost == peak_labor.daily_cost * 5
    IN {[core_staff |-> peak_labor.core_staff,
         core_hours |-> peak_labor.core_hours,
         extended_staff |-> peak_labor.extended_staff,
         extended_am_hours |-> peak_labor.extended_am_hours,
         extended_pm_hours |-> peak_labor.extended_pm_hours,
         total_positions |-> peak_labor.total_positions,
         total_hours |-> peak_labor.total_hours,
         daily_cost |-> peak_labor.daily_cost,
         weekly_cost |-> total_weekly_cost,
         monthly_cost |-> monthly_cost,
         avg_rate |-> peak_labor.avg_rate] :
        monthly_cost \in round(total_weekly_cost * WEEKS_PER_MONTH, 100)}

\* weekly_labor: the positions and hours of the peak day (the first of the
\* days of the highest total_children), the daily costs of the five days
\* added up, and that sum times 4.33
weekly_labor(schedule_data) ==
    LET attendance == [d \in DOMAIN schedule_data |->
                          [total |-> schedule_data[d].total_children]]
        peak_labor == schedule_data[peak_day(attendance, 2, 1)].labor
        total_weekly_cost ==
            SumSeq([n \in 1..Len(WEEKDAYS) |-> schedule_data[WEEKDAYS[n]].labor.daily_cost])
    IN {[core_staff |-> peak_labor.core_staff,
         core_hours |-> peak_labor.core_hours,
         extended_staff |-> peak_labor.extended_staff,
         extended_am_hours |-> peak_labor.extended_am_hours,
         extended_pm_hours |-> peak_labor.extended_pm_hours,
         total_positions |-> peak_labor.total_positions,
         total_hours |-> peak_labor.total_hours,
         daily_cost |-> peak_labor.daily_cost,
         weekly_cost |-> total_weekly_cost,
         monthly_cost |-> monthly_cost,
         avg_rate |-> peak_labor.avg_rate] :
        monthly_cost \in round(total_weekly_cost * WEEKS_PER_MONTH, 100)}

\* GET /schedule: the settings table after the request and the values handed
\* to the template
monthly_schedule(settings_table, staff_table, fp) ==
    LET table == get_or_create(settings_table)
        settings == table[1]
    IN UNION {
         UNION {
           {[table |-> table,
             response |-> [status |-> 200,
                           body |-> [schedule_data |-> schedule_data,
                                     weekly_labor |-> weekly,
                                     capacity_data |-> capacity_data]]] :
              weekly \in weekly_labor(schedule_data)} :
           schedule_data \in
              {[d \in {WEEKDAYS[n] : n \in 1..Len(WEEKDAYS)} |->
                  days[CHOOSE n \in 1..Len(WEEKDAYS) : WEEKDAYS[n] = d]] :
               days \in {ds \in Product([n \in 1..Len(WEEKDAYS) |->
                               schedule_day(capacity_data, WEEKDAYS[n], staff_table)]) :
                           \A m, n \in 1..Len(WEEKDAYS) :
                              (/\ ds[m].total_children = ds[n].total_children
                               /\ ds[m].infants = ds[n].infants)
                                 => same_figures(ds[m], ds[n])}}} :
         capacity_data \in calculate_capacity_plan(get_age_mix(settings),
                              get_schedule_mix(settings), get_days_mix(settings),
                              settings.total_children, fp, staff_table)}

VALID_DAYS ==
    {"Monday", "Tuesday", "Wednesday", "Thursday", "Friday", "Saturday", "Sunday"}

\* a day view that splits the day as the weekly view does
daily_schedule_by_core_share(settings_table, staff_table, day_name_str, fp) ==
    IF day_name_str \notin VALID_DAYS
    THEN {[table |-> settings_table,
           response |-> [status |-> 400, body |-> [error |-> "Invalid day name"]]]}
    ELSE LET table == get_or_create(settings_table)
             settings == table[1]
         IN UNION {
              LET day == [day_name |-> day_name_str] @@
                         (IF day_name_str \in DOMAIN capacity_data.daily_attendance
                          THEN capacity_data.daily_attendance[day_name_str]
                          ELSE [infants |-> 0, children |-> 0, total |-> 0])
                  attending == consolidated(capacity_data.distribution, day_name_str)
                  infant_staff == ceil_ratio(day.infants, 4)
                  child_staff == ceil_ratio(day.children, 12)
              IN {[table |-> table,
                   response |->
                      [status |-> 200,
                       body |-> [day_name |-> day_name_str,
                                 total_children |-> day.total,
                                 infant_count |-> day.infants,
                                 child_count |-> day.children,
                                 children |-> attending,
                                 total_staff_required |-> infant_staff + child_staff,
                                 labor |-> x[2],
                                 staff_shifts |-> staff_shifts(x[2])]]] :
                  x \in UNION {{split} \X calculate_daily_labor(split.core_infants,
                                    split.core_children, split.extended_infants,
                                    split.extended_children, staff_table) :
                               split \in day_split(day, capacity_data.schedule_summary)}} :
              capacity_data \in calculate_capacity_plan(get_age_mix(settings),
                                   get_schedule_mix(settings), get_days_mix(settings),
                                   settings.total_children, fp, staff_table)}

\* GET /schedule/daily/<day_name_str>: the day's own combinations are added
\* up per schedule type and age
daily_schedule(settings_table, staff_table, day_name_str, fp) ==
    IF day_name_str \notin VALID_DAYS
    THEN {[table |-> settings_table,
           response |-> [status |-> 400, body |-> [error |-> "Invalid day name"]]]}
    ELSE LET table == get_or_create(settings_table)
             settings == table[1]
         IN UNION {
              LET day == [day_name |-> day_name_str] @@
                         (IF day_name_str \in DOMAIN capacity_data.daily_attendance
                          THEN capacity_data.daily_attendance[day_name_str]
                          ELSE [infants |-> 0, children |-> 0, total |-> 0])
                  attending == consolidated(capacity_data.distribution, day_name_str)
                  count_of(age, schedule) ==
                      SumSeq([n \in 1..Len(attending) |->
                                 IF /\ attending[n].age_group_type = age
                                    /\ attending[n].schedule_type = schedule
                                 THEN attending[n].count ELSE 0])
                  infant_staff == ceil_ratio(day.infants, 4)
                  child_staff == ceil_ratio(day.children, 12)
              IN {[table |-> table,
                   response |->
                      [status |-> 200,
                       body |-> [day_name |-> day_name_str,
                                 total_children |-> day.total,
                                 infant_count |-> day.infants,
                                 child_count |-> day.children,
                                 children |-> attending,
                                 total_staff_required |-> infant_staff + child_staff,
                                 labor |-> labor,
                                 staff_shifts |-> staff_shifts(labor)]]] :
                  labor \in calculate_daily_labor(count_of("infant", "core"),
                               count_of("child", "core"), count_of("infant", "extended"),
                               count_of("child", "extended"), staff_table)} :
              capacity_data \in calculate_capacity_plan(get_age_mix(settings),
                                   get_schedule_mix(settings), get_days_mix(settings),
                                   settings.total_children, fp, staff_table)}

\* ------------------------------------------ pricing and expense routes
\* the prices create_fixed_plans gives the 12 combinations, in cents
BASE_PRICES ==
    <<180000, 155000, 140000, 125000, 110000, 100000,
      250000, 220000, 195000, 180000, 140000, 130000>>

\* create_fixed_plans: a plan for every combination that has no fixed plan yet
RECURSIVE create_fixed_plans(_, _)
create_fixed_plans(plan_table, i) ==
    IF i > Len(plan_combinations) THEN plan_table
    ELSE LET existing == Filter(plan_table, LAMBDA plan :
                            /\ plan.schedule_type = plan_combinations[i].schedule_type
                            /\ plan.day_pattern = plan_combinations[i].day_pattern
                            /\ plan.age_group_type = plan_combinations[i].age_group_type
                            /\ plan.is_fixed_plan)
         IN create_fixed_plans(
                IF existing = <<>>
                THEN Append(plan_table,
                        [id |-> Len(plan_table) + 1,
                         base_price |-> BASE_PRICES[i],
                         schedule_type |-> plan_combinations[i].schedule_type,
                         day_pattern |-> plan_combinations[i].day_pattern,
                         age_group_type |-> plan_combinations[i].age_group_type,
                         is_active |-> TRUE,
                         is_fixed_plan |-> TRUE])
                ELSE plan_table,
                i + 1)

\* POST /pricing/fixed-plans/update: data maps plan ids to prices in cents
update_fixed_plan_prices(plan_table, data) ==
    [n \in 1..Len(plan_table) |->
        IF n \in DOMAIN data /\ plan_table[n].is_fixed_plan
        THEN [plan_table[n] EXCEPT !.base_price = data[n]]
        ELSE plan_table[n]]

\* POST /pricing/core-plan/toggle/<id>
toggle_core_plan(plan_table, id) ==
    IF id \in 1..Len(plan_table)
    THEN [plan_table EXCEPT ![id].is_active = ~@]
    ELSE plan_table

\* POST /expenses/fixed/add: monthly_amount in cents
add_fixed_expense(expense_table, data) ==
    Append(expense_table,
        [id |-> Len(expense_table) + 1,
         name |-> data.name,
         category |-> data.category,
         monthly_amount |-> data.monthly_amount,
         is_active |-> TRUE])

\* POST /expenses/fixed/toggle/<id>
toggle_fixed_expense(expense_table, id) ==
    IF id \in 1..Len(expense_table)
    THEN [expense_table EXCEPT ![id].is_active = ~@]
    ELSE expense_table

\* POST /expenses/per-child/add: one row for each age group and schedule, the
\* rates in cents
add_per_child_cost(cost_table, data) ==
    LET row(n, age, sched) ==
            [id |-> Len(cost_table) + n,
             name |-> data.name,
             age_group_type |-> age,
             schedule_type |-> sched,
             monthly_rate |-> Get(data, "rate_" \o age \o "_" \o sched, 0),
             is_active |-> TRUE]
    IN cost_table \o <<row(1, "infant", "core"), row(2, "infant", "extended"),
                       row(3, "child", "core"), row(4, "child", "extended")>>

\* ------------------------------------------------------------ ratio strings
\* a string is the sequence of its characters
DigitValue ==
    "0" :> 0 @@ "1" :> 1 @@ "2" :> 2 @@ "3" :> 3 @@ "4" :> 4 @@
    "5" :> 5 @@ "6" :> 6 @@ "7" :> 7 @@ "8" :> 8 @@ "9" :> 9

\* str.split(sep)
RECURSIVE split(_, _)
split(s, sep) ==
    LET at == {i \in 1..Len(s) : s[i] = sep}
    IN IF at = {} THEN <<s>>
       ELSE LET i == CHOOSE j \in at : \A k \in at : j <= k
            IN <<SubSeq(s, 1, i - 1)>> \o split(SubSeq(s, i + 1, Len(s)), sep)

\* int(s) for a string of decimal digits
RECURSIVE int(_)
int(s) ==
    IF Len(s) = 1 THEN DigitValue[s[1]]
    ELSE int(SubSeq(s, 1, Len(s) - 1)) * 10 + DigitValue[s[Len(s)]]

\* a ratio calculation that rounds down
evaluate_ratio_option_floor(child_count, ratio_str) ==
    LET parts == split(ratio_str, ":")
        staff_ratio == int(parts[1])
        child_ratio == int(parts[2])
    IN (child_count * staff_ratio) \div child_ratio

\* -(-child_count * staff_ratio // child_ratio); // and \div both round
\* toward minus infinity
evaluate_ratio_option(child_count, ratio_str) ==
    LET parts == split(ratio_str, ":")
        staff_ratio == int(parts[1])
        child_ratio == int(parts[2])
    IN -(((-child_count) * staff_ratio) \div child_ratio)

\* ------------------------------------------------------------------ tables
\* AgeGroup.query.get(id): NULL when there is no such row
age_group_get(group_table, id) ==
    IF id \in 1..Len(group_table) THEN group_table[id] ELSE NULL

\* AgeGroup.get_enhanced_ratios: the column holds the JSON text of the list, or
\* None for an empty list; both read back as the list
get_enhanced_ratios(group) == group.enhanced_ratios

\* ------------------------------------------------------- qualification math
\* a supervisor capacity that counts every available member, Assistants too,
\* as able to supervise one Assistant at least
calculate_supervisor_capacity_per_head(available_staff) ==
    LET levels == {available_staff[n].permit_level : n \in 1..Len(available_staff)}
        of_level(l) == Filter(available_staff, LAMBDA s : s.permit_level = l)
        max_of(s) == IF s.permit_level = "Assistant" THEN 1
                     ELSE permit_get(s.permit_level, "max_assistants", 0)
        Capacity(seq) == SumSeq([n \in 1..Len(seq) |-> max_of(seq[n])])
    IN [max_assistants |-> Capacity(available_staff),
        breakdown |-> [l \in levels |->
                          [count |-> Len(of_level(l)),
                           capacity |-> Capacity(of_level(l))]]]

calculate_supervisor_capacity(available_staff) ==
    LET supervisors == Filter(available_staff,
                              LAMBDA s : s.permit_level # "Assistant")
        levels == {supervisors[n].permit_level : n \in 1..Len(supervisors)}
        of_level(l) == Filter(supervisors, LAMBDA s : s.permit_level = l)
        max_of(s) == permit_get(s.permit_level, "max_assistants", 0)
        Capacity(seq) == SumSeq([n \in 1..Len(seq) |-> max_of(seq[n])])
    IN [max_assistants |-> Capacity(supervisors),
        breakdown |-> [l \in levels |->
                          [count |-> Len(of_level(l)),
                           capacity |-> Capacity(of_level(l))]]]

check_infant_qualifications(staff) ==
    LET reasons ==
            (IF ~staff.is_fully_qualified
             THEN <<"Not fully qualified (needs 12 ECE units + 6 months experience)">>
             ELSE <<>>)
            \o (IF ~staff.has_infant_specialization
                THEN <<"Missing 3+ units in infant care specialization">>
                ELSE <<>>)
    IN [qualified |-> Len(reasons) = 0, reasons |-> reasons]

\* an eligibility test that counts every Assistant as a qualified aide
can_use_enhanced_ratio_any_aide(enhanced_option, available_staff) ==
    LET requires_teachers == Get(enhanced_option, "requires_teachers", 1)
        requires_aides == Get(enhanced_option, "requires_aides", 0)
        aide_min_ece == Get(enhanced_option, "aide_min_ece_units", 0)
        qualified_teachers ==
            Filter(available_staff,
                   LAMBDA s : permit_get(s.permit_level, "rank", 0) >= 2)
        qualified_aides ==
            Filter(available_staff, LAMBDA s : s.permit_level = "Assistant")
    IN IF Len(qualified_teachers) < requires_teachers
       THEN [can_use |-> FALSE,
             reason |-> [text |-> "Need qualified teacher(s)",
                         need |-> requires_teachers,
                         have |-> Len(qualified_teachers)]]
       ELSE IF Len(qualified_aides) < requires_aides
       THEN [can_use |-> FALSE,
             reason |-> [text |-> "Need aide(s) with ECE units",
                         need |-> requires_aides, units |-> aide_min_ece,
                         have |-> Len(qualified_aides)]]
       ELSE [can_use |-> TRUE, reason |-> [text |-> "Requirements met"]]

\* the reason is the message with the numbers it is formatted from
can_use_enhanced_ratio(enhanced_option, available_staff) ==
    LET requires_teachers == Get(enhanced_option, "requires_teachers", 1)
        requires_aides == Get(enhanced_option, "requires_aides", 0)
        aide_min_ece == Get(enhanced_option, "aide_min_ece_units", 0)
        qualified_teachers ==
            Filter(available_staff,
                   LAMBDA s : permit_get(s.permit_level, "rank", 0) >= 2)
        qualified_aides ==
            Filter(available_staff,
                   LAMBDA s : s.permit_level = "Assistant"
                              /\ s.ece_units >= aide_min_ece)
    IN IF Len(qualified_teachers) < requires_teachers
       THEN [can_use |-> FALSE,
             reason |-> [text |-> "Need qualified teacher(s)",
                         need |-> requires_teachers,
                         have |-> Len(qualified_teachers)]]
       ELSE IF Len(qualified_aides) < requires_aides
       THEN [can_use |-> FALSE,
             reason |-> [text |-> "Need aide(s) with ECE units",
                         need |-> requires_aides, units |-> aide_min_ece,
                         have |-> Len(qualified_aides)]]
       ELSE [can_use |-> TRUE, reason |-> [text |-> "Requirements met"]]

\* -------------------------------------------------- calculate_staffing_needs
\* one pass of the loop over the enhanced options in which an eligible option
\* also replaces a choice that needs the same number of staff
evaluate_enhanced_option_or_equal(group_result, enhanced, child_count, available_staff) ==
    LET enhanced_staff_needed == evaluate_ratio_option(child_count, enhanced.ratio)
        usable == can_use_enhanced_ratio(enhanced, available_staff)
        option_info ==
            [ratio |-> enhanced.ratio,
             staff_needed |-> enhanced_staff_needed,
             can_use |-> usable.can_use,
             reason |-> usable.reason,
             description |-> Get(enhanced, "description", ""),
             requirements |->
                 [teachers |-> Get(enhanced, "requires_teachers", 1),
                  aides |-> Get(enhanced, "requires_aides", 0),
                  aide_min_ece |-> Get(enhanced, "aide_min_ece_units", 0)]]
        appended == [group_result EXCEPT
                        !.enhanced_options = Append(@, option_info)]
    IN IF usable.can_use /\ enhanced_staff_needed <= group_result.staff_needed
       THEN ("enhanced_description" :> Get(enhanced, "description", ""))
            @@ [appended EXCEPT !.ratio = enhanced.ratio,
                                !.staff_needed = enhanced_staff_needed,
                                !.ratio_used = "enhanced"]
       ELSE appended

\* one pass of the loop over the enhanced options: the option is recorded, and
\* taken when it is usable and needs fewer staff than the choice so far
evaluate_enhanced_option(group_result, enhanced, child_count, available_staff) ==
    LET enhanced_staff_needed == evaluate_ratio_option(child_count, enhanced.ratio)
        usable == can_use_enhanced_ratio(enhanced, available_staff)
        option_info ==
            [ratio |-> enhanced.ratio,
             staff_needed |-> enhanced_staff_needed,
             can_use |-> usable.can_use,
             reason |-> usable.reason,
             description |-> Get(enhanced, "description", ""),
             requirements |->
                 [teachers |-> Get(enhanced, "requires_teachers", 1),
                  aides |-> Get(enhanced, "requires_aides", 0),
                  aide_min_ece |-> Get(enhanced, "aide_min_ece_units", 0)]]
        appended == [group_result EXCEPT
                        !.enhanced_options = Append(@, option_info)]
    IN IF usable.can_use /\ enhanced_staff_needed < group_result.staff_needed
       THEN ("enhanced_description" :> Get(enhanced, "description", ""))
            @@ [appended EXCEPT !.ratio = enhanced.ratio,
                                !.staff_needed = enhanced_staff_needed,
                                !.ratio_used = "enhanced"]
       ELSE appended

\* for enhanced in enhanced_ratios: ...
RECURSIVE evaluate_enhanced_ratios(_, _, _, _)
evaluate_enhanced_ratios(group_result, enhanced_ratios, child_count, available_staff) ==
    IF enhanced_ratios = <<>> THEN group_result
    ELSE evaluate_enhanced_ratios(
             evaluate_enhanced_option(group_result, Head(enhanced_ratios),
                                      child_count, available_staff),
             Tail(enhanced_ratios), child_count, available_staff)

\* the group_result of one age group with children
staffing_group_result(group, child_count, available_staff) ==
    LET basic_staff_needed == evaluate_ratio_option(child_count, group.required_ratio)
        is_infant == group.min_age_months < 18
        qualified_infant_staff ==
            Filter(available_staff,
                   LAMBDA s : check_infant_qualifications(s).qualified)
        basic ==
            [name |-> group.name,
             children |-> child_count,
             ratio |-> group.required_ratio,
             staff_needed |-> basic_staff_needed,
             ratio_used |-> "basic",
             enhanced_options |-> <<>>,
             qualification_warnings |->
                 IF is_infant /\ Len(qualified_infant_staff) < basic_staff_needed
                 THEN <<[text |-> "Need infant-qualified teachers",
                         need |-> basic_staff_needed,
                         have |-> Len(qualified_infant_staff)]>>
                 ELSE <<>>]
    IN evaluate_enhanced_ratios(basic, get_enhanced_ratios(group), child_count,
                                available_staff)

\* for data in age_group_data: the group results appended, in order
RECURSIVE staffing_group_results(_, _, _)
staffing_group_results(group_table, age_group_data, available_staff) ==
    IF age_group_data = <<>> THEN <<>>
    ELSE LET data == Head(age_group_data)
             group == age_group_get(group_table, data.age_group_id)
             rest == staffing_group_results(group_table, Tail(age_group_data),
                                            available_staff)
         IN IF data.child_count > 0 /\ group # NULL
            THEN <<staffing_group_result(group, data.child_count, available_staff)>>
                 \o rest
            ELSE rest

\* the keys of the result that depend on ratios and qualifications; the
\* listing of staff by level, the cost analysis and the suggested assignments
\* are left out
calculate_staffing_needs(staff_table, group_table, age_group_data) ==
    LET available_staff == available_staff_of(staff_table)
        supervisor_capacity == calculate_supervisor_capacity(available_staff)
        max_assistants == supervisor_capacity.max_assistants
        directors == Filter(available_staff, LAMBDA s : s.is_director)
        director == directors[1]
        age_groups == staffing_group_results(group_table, age_group_data,
                                             available_staff)
        total_staff_needed ==
            SumSeq([n \in 1..Len(age_groups) |-> age_groups[n].staff_needed])
        teacher_count ==
            Len(Filter(available_staff,
                       LAMBDA s : s.permit_level \in DOMAIN PERMIT_LEVELS
                                  /\ PERMIT_LEVELS[s.permit_level].rank >= 2))
        assistant_count ==
            Len(Filter(available_staff, LAMBDA s : s.permit_level = "Assistant"))
    IN [age_groups |-> age_groups,
        total_staff_needed |-> total_staff_needed,
        minimum_teachers_needed |-> total_staff_needed,
        can_use_assistants |-> teacher_count > 0,
        available_supervisors |-> teacher_count,
        supervisor_capacity |-> supervisor_capacity,
        director_info |->
            IF directors # <<>>
            THEN [name |-> director.name,
                  level |-> director.permit_level,
                  counts_toward_ratio |-> director.director_counts_toward_ratio,
                  status |-> IF director.director_counts_toward_ratio
                             THEN "Teaching" ELSE "Administrative only"]
            ELSE <<>>,
        qualification_warnings |->
            (IF directors # <<>> /\ ~director.director_counts_toward_ratio
             THEN <<[text |-> "Director is not counted toward staffing ratios",
                     name |-> director.name]>>
             ELSE <<>>)
            \o (IF assistant_count > max_assistants
                THEN <<[text |-> "Have more assistants than can be supervised",
                        have |-> assistant_count, capacity |-> max_assistants]>>
                ELSE <<>>),
        is_adequately_staffed |-> Len(available_staff) >= total_staff_needed]

\* ------------------------------------------------- staff and age-group routes
\* a form checkbox is sent as 'on' or not at all
Checked(data, k) == Get(data, k, "") = "on"

\* float(s) of a whole number of dollars, held in cents
float_cents(s) == int(s) * 100

\* POST /staff/add with form data
add_staff(staff_table, data) ==
    [table |-> Append(staff_table,
         [id |-> Len(staff_table) + 1,
          name |-> data.name,
          permit_level |-> data.permit_level,
          is_available |-> TRUE,
          hourly_rate |-> IF "hourly_rate" \in DOMAIN data
                          THEN float_cents(data.hourly_rate) ELSE 0,
          ece_units |-> IF "ece_units" \in DOMAIN data
                        THEN int(data.ece_units) ELSE 0,
          has_infant_specialization |-> Checked(data, "has_infant_specialization"),
          is_fully_qualified |-> Get(data, "is_fully_qualified", "on") = "on",
          is_director |-> Checked(data, "is_director"),
          director_counts_toward_ratio |->
              Checked(data, "director_counts_toward_ratio")]),
     response |-> [status |-> 302, body |-> [location |-> "manage_staff"]]]

\* POST /staff/toggle/<id>
toggle_staff_availability(staff_table, id) ==
    IF id \in 1..Len(staff_table)
    THEN [table |-> [staff_table EXCEPT ![id].is_available = ~@],
          response |-> [status |-> 302, body |-> [location |-> "manage_staff"]]]
    ELSE [table |-> staff_table,
          response |-> [status |-> 404, body |-> [error |-> "Not Found"]]]

\* POST /age-groups/add with form data; enhanced_ratios_json is held as the
\* list it encodes
add_age_group(group_table, data) ==
    [table |-> Append(group_table,
         [id |-> Len(group_table) + 1,
          name |-> data.name,
          min_age_months |-> int(data.min_age_months),
          max_age_months |-> int(data.max_age_months),
          required_ratio |-> data.required_ratio,
          enhanced_ratios |-> Get(data, "enhanced_ratios_json", <<>>)]),
     response |-> [status |-> 302, body |-> [location |-> "manage_age_groups"]]]

\* POST /calculate with JSON body data
calculate(staff_table, group_table, data) ==
    [status |-> 200,
     body |-> calculate_staffing_needs(staff_table, group_table, data.age_groups)]

\* ------------------------------------------------------------ inputs drawn
\* percentages a caller may hand in, in units
PlanPercents == {Pct(0), Pct(10), Pct(20), Pct(30), Pct(50), Pct(100), Pct(33) + 67}

\* the last two: a negative share, and a total of 100.005
AgeMixes ==
    {[infant |-> a, child |-> Hundred - a] : a \in PlanPercents}
    \cup {[infant |-> Pct(-180), child |-> Pct(280)],
          [infant |-> Pct(50), child |-> Pct(50) + 1]}

ScheduleMixes ==
    {[core |-> c, extended |-> Hundred - c] : c \in PlanPercents}

DaysMixes ==
    {[full |-> p[1], mwf |-> p[2], tth |-> Hundred - p[1] - p[2]] :
        p \in {q \in PlanPercents \X PlanPercents : q[1] + q[2] <= Hundred}}

\* ------------------------------- calculate_capacity_plan as a pure function
InitPlan ==
    /\ plan_in \in [age_mix : AgeMixes, schedule_mix : ScheduleMixes,
                    days_mix : DaysMixes, total_children : 0..MaxChildren]
    /\ plan_out = NULL
    /\ capacity_settings = <<>>
    /\ pending = NULL
    /\ response = NULL
    /\ ratio_in = NULL
    /\ ratio_out = NULL
    /\ staff_member = <<>>
    /\ age_group = <<>>
    /\ NoFinance
    /\ NoCalls

CallCapacityPlan ==
    /\ plan_out = NULL
    /\ \E fp \in Roundings(plan_in.age_mix, plan_in.schedule_mix,
                           plan_in.days_mix, plan_in.total_children) :
          plan_out' \in calculate_capacity_plan(plan_in.age_mix, plan_in.schedule_mix,
                            plan_in.days_mix, plan_in.total_children, fp,
                            staff_member)
    /\ UNCHANGED <<plan_in, route_vars, ratio_vars, staff_vars, finance_vars, call_vars>>

NextPlan == CallCapacityPlan

SpecPlan == InitPlan /\ [][NextPlan]_vars

\* ------------------------------------------- the capacity-planner service
\* request bodies: each of the keys may be left out
RequestAgeMixes ==
    {[infant |-> Pct(30), child |-> Pct(70)],
     [infant |-> Pct(50), child |-> Pct(50) + 1],     \* totals 100.005
     [infant |-> Pct(50), child |-> Pct(50) + 3],     \* totals 100.015
     [infant |-> Pct(-20), child |-> Pct(120)],
     [infant |-> Pct(100)]}

RequestScheduleMixes ==
    {[core |-> Pct(50), extended |-> Pct(50)],
     [core |-> Pct(50), extended |-> Pct(40)]}

RequestDaysMixes ==
    {[full |-> Pct(50), mwf |-> Pct(30), tth |-> Pct(20)],
     [full |-> Pct(50), mwf |-> Pct(30), tth |-> Pct(10)]}

RequestTotals == {0, MaxChildren, -5}

\* the bodies with every key, and those that leave keys to their defaults
RequestBodies ==
    [age_mix : RequestAgeMixes, schedule_mix : RequestScheduleMixes,
     days_mix : RequestDaysMixes, total_children : RequestTotals]
    \cup [age_mix : RequestAgeMixes, schedule_mix : RequestScheduleMixes,
          days_mix : RequestDaysMixes, total_children : RequestTotals,
          max_capacity : {60}]
    \cup [schedule_mix : RequestScheduleMixes, total_children : RequestTotals]
    \cup [age_mix : RequestAgeMixes, days_mix : RequestDaysMixes]

Idle ==
    /\ plan_in = NULL
    /\ plan_out = NULL
    /\ ratio_in = NULL
    /\ ratio_out = NULL

Init ==
    /\ Idle
    /\ staff_member = <<>>
    /\ age_group = <<>>
    /\ NoFinance
    /\ NoCalls
    /\ capacity_settings = <<>>
    /\ pending = NULL
    /\ response = NULL

\* a client sends a request; the server takes one request at a time
Receive ==
    /\ pending = NULL
    /\ \E route \in {"get_capacity_settings", "save_capacity_settings",
                     "calculate_capacity"} :
          \E data \in RequestBodies :
             pending' = [route |-> route,
                         data |-> IF route = "get_capacity_settings"
                                  THEN NULL ELSE data]
    /\ UNCHANGED <<capacity_settings, response, plan_vars, ratio_vars, staff_vars, finance_vars, call_vars>>

HandleGetSettings ==
    /\ pending # NULL
    /\ pending.route = "get_capacity_settings"
    /\ LET r == get_capacity_settings(capacity_settings)
       IN /\ capacity_settings' = r.table
          /\ response' = r.response
    /\ pending' = NULL
    /\ UNCHANGED <<plan_vars, ratio_vars, staff_vars, finance_vars, call_vars>>

HandleSaveSettings ==
    /\ pending # NULL
    /\ pending.route = "save_capacity_settings"
    /\ LET r == save_capacity_settings(capacity_settings, pending.data)
       IN /\ capacity_settings' = r.table
          /\ response' = r.response
    /\ pending' = NULL
    /\ UNCHANGED <<plan_vars, ratio_vars, staff_vars, finance_vars, call_vars>>

HandleCalculate ==
    /\ pending # NULL
    /\ pending.route = "calculate_capacity"
    /\ \E fp \in Roundings(Get(pending.data, "age_mix", DefaultAgeMix),
                           Get(pending.data, "schedule_mix", DefaultScheduleMix),
                           Get(pending.data, "days_mix", DefaultDaysMix),
                           Get(pending.data, "total_children", 50)) :
          \E r \in calculate_capacity(capacity_settings, pending.data, fp,
                                      staff_member) :
             /\ capacity_settings' = r.table
             /\ response' = r.response
    /\ pending' = NULL
    /\ UNCHANGED <<plan_vars, ratio_vars, staff_vars, finance_vars, call_vars>>

Next ==
    \/ Receive
    \/ HandleGetSettings
    \/ HandleSaveSettings
    \/ HandleCalculate

Spec == Init /\ [][Next]_vars

\* --------------------------------- evaluate_ratio_option as a pure function
DigitChar == <<"0", "1", "2", "3", "4", "5", "6", "7", "8", "9">>

\* str(n) for n >= 0
RECURSIVE str(_)
str(n) == IF n < 10 THEN <<DigitChar[n + 1]>>
          ELSE str(n \div 10) \o <<DigitChar[(n % 10) + 1]>>

\* the ratio string "S:C"
RatioStr(S, C) == str(S) \o <<":">> \o str(C)

RatioStrings ==
    {RatioStr(S, C) : S \in 1..MaxRatioStaff, C \in 1..MaxRatioChildren}

InitRatio ==
    /\ ratio_in \in [child_count : 0..MaxChildCount, ratio_str : RatioStrings]
    /\ ratio_out = NULL
    /\ plan_in = NULL
    /\ plan_out = NULL
    /\ capacity_settings = <<>>
    /\ pending = NULL
    /\ response = NULL
    /\ staff_member = <<>>
    /\ age_group = <<>>
    /\ NoFinance
    /\ NoCalls

CallEvaluateRatio ==
    /\ ratio_out = NULL
    /\ ratio_out' = [returned |->
                        evaluate_ratio_option(ratio_in.child_count, ratio_in.ratio_str)]
    /\ UNCHANGED <<ratio_in, plan_vars, route_vars, staff_vars, finance_vars, call_vars>>

NextRatio == CallEvaluateRatio

SpecRatio == InitRatio /\ [][NextRatio]_vars

\* ------------------------------------------------------ the staffing service
\* the forms of POST /staff/add that are sent
StaffForms ==
    {[name |-> "Ana", permit_level |-> "Assistant", hourly_rate |-> str(16)],
     [name |-> "Ben", permit_level |-> "Assistant", hourly_rate |-> str(18),
      ece_units |-> str(6)],
     [name |-> "Cyd", permit_level |-> "Associate Teacher", hourly_rate |-> str(20),
      ece_units |-> str(12), has_infant_specialization |-> "on"],
     [name |-> "Dee", permit_level |-> "Teacher", hourly_rate |-> str(24),
      ece_units |-> str(24), is_fully_qualified |-> "off"],
     [name |-> "Eli", permit_level |-> "Program Director", hourly_rate |-> str(30),
      ece_units |-> str(24), is_director |-> "on"]}

\* enhanced ratio options as they are declared on an age group
Option15 ==
    [ratio |-> RatioStr(1, 15), description |-> "1 teacher + 1 aide",
     requires_teachers |-> 1, requires_aides |-> 1, aide_min_ece_units |-> 0]

Option18 ==
    [ratio |-> RatioStr(1, 18), description |-> "1 teacher + 1 aide with 6+ units",
     requires_teachers |-> 1, requires_aides |-> 1, aide_min_ece_units |-> 6]

Option14 ==
    [ratio |-> RatioStr(1, 14), description |-> "2 teachers",
     requires_teachers |-> 2]

Option6 == [ratio |-> RatioStr(1, 6), description |-> "infant aide"]

\* the forms of POST /age-groups/add that are sent
AgeGroupForms ==
    {[name |-> "Infants", min_age_months |-> str(0), max_age_months |-> str(18),
      required_ratio |-> RatioStr(1, 4), enhanced_ratios_json |-> <<Option6>>],
     [name |-> "Toddlers", min_age_months |-> str(18), max_age_months |-> str(30),
      required_ratio |-> RatioStr(1, 6)],
     [name |-> "Preschool", min_age_months |-> str(24), max_age_months |-> str(72),
      required_ratio |-> RatioStr(1, 12),
      enhanced_ratios_json |-> <<Option15, Option18, Option14>>],
     [name |-> "Pre-K", min_age_months |-> str(48), max_age_months |-> str(72),
      required_ratio |-> RatioStr(1, 12),
      enhanced_ratios_json |-> <<Option14, Option18, Option15>>]}

\* the bodies of POST /calculate that are sent
CalculateBodies ==
    {[age_groups |-> <<[age_group_id |-> 1, child_count |-> c]>>] :
        c \in {0, 5, 10, 13, 16}}
    \cup {[age_groups |-> <<[age_group_id |-> 2, child_count |-> 16],
                            [age_group_id |-> 1, child_count |-> 5]>>]}

InitStaffing ==
    /\ staff_member = <<>>
    /\ age_group = <<>>
    /\ NoFinance
    /\ NoCalls
    /\ response = NULL
    /\ pending = NULL
    /\ capacity_settings = <<>>
    /\ Idle

\* the handlers run one request at a time
HandleAddStaff ==
    /\ Len(staff_member) < MaxStaff
    /\ \E data \in StaffForms :
          LET r == add_staff(staff_member, data)
          IN /\ staff_member' = r.table
             /\ response' = r.response
    /\ UNCHANGED <<age_group, capacity_settings, pending, plan_vars, ratio_vars, finance_vars, call_vars>>

HandleToggleStaff ==
    /\ \E id \in ToggleIds :
          LET r == toggle_staff_availability(staff_member, id)
          IN /\ staff_member' = r.table
             /\ response' = r.response
    /\ UNCHANGED <<age_group, capacity_settings, pending, plan_vars, ratio_vars, finance_vars, call_vars>>

HandleAddAgeGroup ==
    /\ Len(age_group) < MaxAgeGroups
    /\ \E data \in AgeGroupForms :
          LET r == add_age_group(age_group, data)
          IN /\ age_group' = r.table
             /\ response' = r.response
    /\ UNCHANGED <<staff_member, capacity_settings, pending, plan_vars, ratio_vars, finance_vars, call_vars>>

HandleCalculateStaffing ==
    /\ \E data \in CalculateBodies :
          response' = calculate(staff_member, age_group, data)
    /\ UNCHANGED <<staff_vars, capacity_settings, pending, plan_vars, ratio_vars, finance_vars, call_vars>>

NextStaffing ==
    \/ HandleAddStaff
    \/ HandleToggleStaff
    \/ HandleAddAgeGroup
    \/ HandleCalculateStaffing

SpecStaffing == InitStaffing /\ [][NextStaffing]_vars


\* ------------------------------- calculate_daily_labor as a pure function
\* the staff tables the staff routes build: forms added in any order, and the
\* first member toggled
RECURSIVE RostersOfLen(_)
RostersOfLen(n) ==
    IF n = 0 THEN {<<>>}
    ELSE {add_staff(t, data).table : t \in RostersOfLen(n - 1), data \in StaffForms}

Rosters ==
    LET added == UNION {RostersOfLen(n) : n \in 0..MaxStaff}
    IN added \cup {toggle_staff_availability(t, 1).table : t \in added}

\* enrollment counts on both sides of the ratios 1:4 and 1:12
InfantCounts == {0, 1, 4, 5}

ChildCounts == {0, 12, 13}

InitLabor ==
    /\ labor_in \in [core_infants : InfantCounts, core_children : ChildCounts,
                     extended_infants : InfantCounts, extended_children : ChildCounts]
    /\ labor_out = NULL
    /\ staff_member \in Rosters
    /\ age_group = <<>>
    /\ NoFinance
    /\ sens_in = NULL
    /\ sens_out = NULL
    /\ threads = <<>>
    /\ capacity_settings = <<>>
    /\ pending = NULL
    /\ response = NULL
    /\ Idle

CallDailyLabor ==
    /\ labor_out = NULL
    /\ labor_out' \in calculate_daily_labor(labor_in.core_infants, labor_in.core_children,
                          labor_in.extended_infants, labor_in.extended_children,
                          staff_member)
    /\ UNCHANGED <<labor_in, sens_in, sens_out, threads, plan_vars, route_vars, ratio_vars,
                   staff_vars, finance_vars>>

NextLabor == CallDailyLabor

SpecLabor == InitLabor /\ [][NextLabor]_vars

\* ------------------------------------------------- the projections service
\* stores the routes build.  Settings: none yet, or saved with an enrollment.
SettingsTotals == {0, 7, 21}

SettingsTables ==
    {save_capacity_settings(<<>>, [total_children |-> n]).table : n \in SettingsTotals}

\* no plans; the 12 fixed plans; those at 100.00 each; those with one toggled
PlanTables ==
    LET fixed == create_fixed_plans(<<>>, 1)
    IN {<<>>, fixed,
        update_fixed_plan_prices(fixed, [n \in 1..Len(fixed) |-> 10000]),
        toggle_core_plan(fixed, 2)}

ExpenseForms ==
    {[name |-> "Rent", category |-> "facility", monthly_amount |-> 339500],
     [name |-> "Insurance", category |-> "insurance", monthly_amount |-> 60000]}

\* no expense; one; two of which the second is toggled off
ExpenseTables ==
    {<<>>}
    \cup {add_fixed_expense(<<>>, data) : data \in ExpenseForms}
    \cup {toggle_fixed_expense(add_fixed_expense(add_fixed_expense(<<>>, d[1]), d[2]), 2) :
            d \in {e \in ExpenseForms \X ExpenseForms : e[1] # e[2]}}

CostTables ==
    {<<>>,
     add_per_child_cost(<<>>, [name |-> "Food", rate_infant_core |-> 4000,
                               rate_infant_extended |-> 4500,
                               rate_child_core |-> 2500,
                               rate_child_extended |-> 3000])}

\* one available teacher on the roster
StaffTables ==
    {t \in Rosters : Len(t) = 1 /\ t[1].permit_level = "Teacher" /\ t[1].is_available}

\* the stores drawn: every combination of the tables above, and the store of
\* a first visit, which has the fixed plans and the rent but no settings
\* record and nobody on the roster yet
Stores ==
    [settings : SettingsTables, plans : PlanTables, expenses : ExpenseTables,
     costs : CostTables, staff : StaffTables]
    \cup [settings : {<<>>},
          plans : {create_fixed_plans(<<>>, 1)},
          expenses : {add_fixed_expense(<<>>, data) :
                         data \in {e \in ExpenseForms : e.name = "Rent"}},
          costs : {<<>>}, staff : {<<>>}]

\* the same with nobody on the roster
StoresWithoutStaff ==
    [settings : SettingsTables, plans : PlanTables, expenses : ExpenseTables,
     costs : CostTables, staff : {<<>>}]

InitStore(stores) ==
    \E store \in stores :
        /\ capacity_settings = store.settings
        /\ core_plan = store.plans
        /\ fixed_expense = store.expenses
        /\ per_child_cost = store.costs
        /\ staff_member = store.staff

InitProjections ==
    /\ InitStore(Stores)
    /\ age_group = <<>>
    /\ pending = NULL
    /\ response = NULL
    /\ NoCalls
    /\ Idle

\* a client sends one request and reads its response
ReceiveProjections ==
    /\ pending = NULL
    /\ response = NULL
    /\ \E route \in {"projections_data", "projections_sensitivity"} :
          pending' = [route |-> route, data |-> NULL]
    /\ UNCHANGED <<capacity_settings, response, plan_vars, ratio_vars, staff_vars,
                   finance_vars, call_vars>>

\* the float tie orders of the plan the stored settings give
SettingsRoundings ==
    LET settings == get_or_create(capacity_settings)[1]
    IN Roundings(get_age_mix(settings), get_schedule_mix(settings),
                 get_days_mix(settings), settings.total_children)

HandleProjectionsData ==
    /\ pending # NULL
    /\ pending.route = "projections_data"
    /\ \E fp \in SettingsRoundings :
          \E r \in projections_data(capacity_settings, core_plan, fixed_expense,
                                    per_child_cost, staff_member, fp) :
             /\ capacity_settings' = r.table
             /\ response' = r.response
    /\ pending' = NULL
    /\ UNCHANGED <<plan_vars, ratio_vars, staff_vars, finance_vars, call_vars>>

HandleProjectionsSensitivity ==
    /\ pending # NULL
    /\ pending.route = "projections_sensitivity"
    /\ \E fp \in SettingsRoundings :
          \E r \in projections_sensitivity(capacity_settings, core_plan, fixed_expense,
                                           per_child_cost, staff_member, fp) :
             /\ capacity_settings' = r.table
             /\ response' = r.response
    /\ pending' = NULL
    /\ UNCHANGED <<plan_vars, ratio_vars, staff_vars, finance_vars, call_vars>>

NextProjections ==
    \/ ReceiveProjections
    \/ HandleProjectionsData
    \/ HandleProjectionsSensitivity

SpecProjections == InitProjections /\ [][NextProjections]_vars

\* ------------------------------- calculate_sensitivity as a pure function
\* the four variables the code names, and one it does not
SensitivityVariables == {"enrollment", "price", "labor", "fixed_expenses", "tuition"}

SensitivityChanges == {-20, 0, 10, 15}

InitSensitivity ==
    /\ sens_in \in [variable : SensitivityVariables, change_pct : SensitivityChanges]
    /\ sens_out = NULL
    /\ labor_in = NULL
    /\ labor_out = NULL
    /\ threads = <<>>
    /\ InitStore(Stores \cup StoresWithoutStaff)
    /\ age_group = <<>>
    /\ pending = NULL
    /\ response = NULL
    /\ Idle

\* base = calculate_projections(), then calculate_sensitivity(base, ...)
CallSensitivity ==
    /\ sens_out = NULL
    /\ \E fp \in SettingsRoundings :
          \E o \in calculate_projections(capacity_settings, core_plan, fixed_expense,
                                         per_child_cost, staff_member, fp) :
             \E r \in calculate_sensitivity(o.table, o.result, sens_in.variable,
                                            sens_in.change_pct) :
                /\ sens_out' = [base |-> o.result, returned |-> r.result]
                /\ capacity_settings' = r.table
    /\ UNCHANGED <<sens_in, labor_in, labor_out, threads, pending, response, plan_vars,
                   ratio_vars, staff_vars, finance_vars>>

NextSensitivity == CallSensitivity

SpecSensitivity == InitSensitivity /\ [][NextSensitivity]_vars

\* ---------------------------------------------------- the schedule views
\* the settings the planner has saved: none yet, or an enrollment and mixes
ScheduleTotals == {0, 3, 12, 21}

ScheduleAgeMixes ==
    {[infant |-> Pct(20), child |-> Pct(80)],
     [infant |-> Pct(0), child |-> Pct(100)],
     [infant |-> Pct(50), child |-> Pct(50)]}

ScheduleScheduleMixes ==
    {[core |-> Pct(50), extended |-> Pct(50)],
     [core |-> Pct(30), extended |-> Pct(70)],
     [core |-> Pct(100), extended |-> Pct(0)]}

ScheduleDaysMixes ==
    {[full |-> Pct(60), mwf |-> Pct(30), tth |-> Pct(10)],
     [full |-> Pct(0), mwf |-> Pct(50), tth |-> Pct(50)],
     [full |-> Pct(100), mwf |-> Pct(0), tth |-> Pct(0)]}

ScheduleSettingsTables ==
    {<<>>}
    \cup {save_capacity_settings(<<>>, data).table :
            data \in [age_mix : ScheduleAgeMixes, schedule_mix : ScheduleScheduleMixes,
                      days_mix : ScheduleDaysMixes, total_children : ScheduleTotals]}

\* the day names a client asks for
RequestDays == VALID_DAYS \cup {"Funday"}

InitSchedule ==
    /\ capacity_settings \in ScheduleSettingsTables
    /\ staff_member \in StaffTables \cup {<<>>}
    /\ age_group = <<>>
    /\ NoFinance
    /\ NoCalls
    /\ pending = NULL
    /\ response = NULL
    /\ Idle

\* a client sends one request and reads its response
ReceiveSchedule ==
    /\ pending = NULL
    /\ response = NULL
    /\ \/ pending' = [route |-> "monthly_schedule", data |-> NULL]
       \/ \E day_name_str \in RequestDays :
             pending' = [route |-> "daily_schedule", data |-> day_name_str]
    /\ UNCHANGED <<capacity_settings, response, plan_vars, ratio_vars, staff_vars,
                   finance_vars, call_vars>>

HandleMonthlySchedule ==
    /\ pending # NULL
    /\ pending.route = "monthly_schedule"
    /\ \E fp \in SettingsRoundings :
          \E r \in monthly_schedule(capacity_settings, staff_member, fp) :
             /\ capacity_settings' = r.table
             /\ response' = r.response
    /\ pending' = NULL
    /\ UNCHANGED <<plan_vars, ratio_vars, staff_vars, finance_vars, call_vars>>

HandleDailySchedule ==
    /\ pending # NULL
    /\ pending.route = "daily_schedule"
    /\ \E fp \in SettingsRoundings :
          \E r \in daily_schedule(capacity_settings, staff_member, pending.data, fp) :
             /\ capacity_settings' = r.table
             /\ response' = r.response
    /\ pending' = NULL
    /\ UNCHANGED <<plan_vars, ratio_vars, staff_vars, finance_vars, call_vars>>

NextSchedule ==
    \/ ReceiveSchedule
    \/ HandleMonthlySchedule
    \/ HandleDailySchedule

SpecSchedule == InitSchedule /\ [][NextSchedule]_vars

\* ------------------------------------- get_or_create in concurrent requests
\* the server runs each request in a thread of its own; the steps of
\* get_or_create in one thread interleave with those of the others
MaxThreads == 3

\* the requests sent at once: reads of the settings and a save
ThreadRequests ==
    {[route |-> "get_capacity_settings", data |-> NULL],
     [route |-> "save_capacity_settings", data |-> [total_children |-> 7]]}

\* a thread before the first statement of get_or_create
ThreadStart(request) ==
    [route |-> request.route, data |-> request.data, pc |-> "query",
     settings |-> NULL, response |-> NULL]

InitConcurrent ==
    /\ capacity_settings = <<>>
    /\ threads \in [1..MaxThreads -> {ThreadStart(request) : request \in ThreadRequests}]
    /\ staff_member = <<>>
    /\ age_group = <<>>
    /\ NoFinance
    /\ labor_in = NULL
    /\ labor_out = NULL
    /\ sens_in = NULL
    /\ sens_out = NULL
    /\ pending = NULL
    /\ response = NULL
    /\ Idle

\* settings = CapacitySettings.query.first(): the row of the lowest id, with
\* the values it has now
ThreadQuery(t) ==
    /\ threads[t].pc = "query"
    /\ threads' =
          [threads EXCEPT
              ![t].settings = IF Len(capacity_settings) > 0
                              THEN [id |-> 1, row |-> capacity_settings[1]]
                              ELSE NULL,
              ![t].pc = IF Len(capacity_settings) > 0 THEN "return" ELSE "create"]
    /\ UNCHANGED <<capacity_settings, pending, response, labor_in, labor_out, sens_in,
                   sens_out, plan_vars, ratio_vars, staff_vars, finance_vars>>

\* if not settings: settings = CapacitySettings(); add; commit.  The table
\* has no constraint but the primary key, so the row is inserted under the
\* next id whatever the table holds by now
ThreadCreate(t) ==
    /\ threads[t].pc = "create"
    /\ capacity_settings' = Append(capacity_settings, CapacitySettingsDefaults)
    /\ threads' =
          [threads EXCEPT
              ![t].settings = [id |-> Len(capacity_settings) + 1,
                               row |-> CapacitySettingsDefaults],
              ![t].pc = "return"]
    /\ UNCHANGED <<pending, response, labor_in, labor_out, sens_in, sens_out,
                   plan_vars, ratio_vars, staff_vars, finance_vars>>

\* return settings, and the rest of the route on the object returned: the
\* read answers from it, the save writes its columns and commits
ThreadReturn(t) ==
    /\ threads[t].pc = "return"
    /\ LET held == threads[t].settings
           r == IF threads[t].route = "get_capacity_settings"
                THEN get_capacity_settings(<<held.row>>)
                ELSE save_capacity_settings(<<held.row>>, threads[t].data)
       IN /\ capacity_settings' =
                IF threads[t].route = "get_capacity_settings"
                THEN capacity_settings
                ELSE [capacity_settings EXCEPT ![held.id] = r.table[1]]
          /\ threads' = [threads EXCEPT ![t].pc = "done",
                                        ![t].response = r.response]
    /\ UNCHANGED <<pending, response, labor_in, labor_out, sens_in, sens_out,
                   plan_vars, ratio_vars, staff_vars, finance_vars>>

NextConcurrent ==
    \/ \E t \in DOMAIN threads : ThreadQuery(t)
    \/ \E t \in DOMAIN threads : ThreadCreate(t)
    \/ \E t \in DOMAIN threads : ThreadReturn(t)

SpecConcurrent == InitConcurrent /\ [][NextConcurrent]_vars

\* ------------------------------------------------------------------ claims
\* the counts of a returned plan, and the exact raw counts of its inputs
PlanCounts == List12(LAMBDA i : plan_out.distribution[i].children)

PlanRaw ==
    raw_counts(plan_in.age_mix, plan_in.schedule_mix, plan_in.days_mix,
               plan_in.total_children)

\* a mix of shares between 0 and 100 over the expected keys that total 100
IsMix(m, keys) ==
    /\ DOMAIN m \subseteq keys
    /\ \A k \in DOMAIN m : m[k] >= 0
    /\ SumValues(m) = Hundred

PlanInputValid ==
    /\ IsMix(plan_in.age_mix, {"infant", "child"})
    /\ IsMix(plan_in.schedule_mix, {"core", "extended"})
    /\ IsMix(plan_in.days_mix, {"full", "mwf", "tth"})
    /\ plan_in.total_children >= 0

C2_WithinOneOfRaw ==
    (plan_out # NULL /\ PlanInputValid)
        => LET counts == PlanCounts
               raw == PlanRaw
           IN \A i \in 1..12 :
                 /\ counts[i] >= raw[i].mag[4]
                 /\ counts[i] <= raw[i].mag[4] + 1

\* a plan in which one fractional count was rounded up and another down
C2_Witness ==
    /\ plan_out # NULL
    /\ PlanInputValid
    /\ \E i, j \in 1..12 :
          /\ FracKey(PlanRaw[i], 0) # <<0, 0, 0, 0>>
          /\ FracKey(PlanRaw[j], 0) # <<0, 0, 0, 0>>
          /\ PlanCounts[i] = PlanRaw[i].mag[4] + 1
          /\ PlanCounts[j] = PlanRaw[j].mag[4]

\* the key of a weekday in the day patterns' lists
DayKey ==
    [Monday |-> "monday", Tuesday |-> "tuesday", Wednesday |-> "wednesday",
     Thursday |-> "thursday", Friday |-> "friday"]

\* the day pattern includes weekday w
Includes(pattern, w) ==
    \E k \in 1..Len(DAY_PATTERNS[pattern].days) :
        DAY_PATTERNS[pattern].days[k] = DayKey[w]

\* the children of one age type that attend on weekday w
AttendingOn(w, age_type) ==
    SumSeq(List12(LAMBDA i :
        IF /\ Includes(plan_out.distribution[i].day_pattern, w)
           /\ plan_out.distribution[i].age_group_type = age_type
        THEN plan_out.distribution[i].children ELSE 0))

\* C10: for each weekday the attendance is, for infants and for children
\* separately, the sum of the counts of the combinations whose day pattern
\* includes that weekday, and its total is infants + children.
C10_AttendanceByWeekday ==
    plan_out # NULL
        => \A n \in 1..Len(WEEKDAYS) :
              LET w == WEEKDAYS[n]
                  att == plan_out.daily_attendance[w]
              IN /\ att.infants = AttendingOn(w, "infant")
                 /\ att.children = AttendingOn(w, "child")
                 /\ att.total = att.infants + att.children

\* a plan whose Monday and Tuesday attendance differ, with infants on both
C10_Witness ==
    /\ plan_out # NULL
    /\ PlanInputValid
    /\ plan_out.daily_attendance["Monday"].total
         # plan_out.daily_attendance["Tuesday"].total
    /\ plan_out.daily_attendance["Monday"].infants > 0
    /\ plan_out.daily_attendance["Tuesday"].infants > 0
    /\ plan_out.daily_attendance["Tuesday"].children > 0

\* the request in flight is a POST to one of the two routes that take mixes
MixRequestPending ==
    /\ pending # NULL
    /\ pending.route \in {"save_capacity_settings", "calculate_capacity"}

\* the response carries a distribution
HasDistribution(r) == r # NULL /\ "distribution" \in DOMAIN r.body

\* the values of a mix sum to 100 within 0.01
WithinTolerance(m) == Abs(SumValues(m) - Hundred) * 100 <= PctScale

\* C3: for N >= 0 and mixes that pass the sum-to-100 (+-0.01) validation, each
\* of the 12 counts of the distribution is a non-negative integer.
C3_CountsNonNegative ==
    (/\ HasDistribution(response)
     /\ response.body.inputs.total_children >= 0
     /\ WithinTolerance(response.body.inputs.age_mix)
     /\ WithinTolerance(response.body.inputs.schedule_mix)
     /\ WithinTolerance(response.body.inputs.days_mix))
        => \A i \in 1..12 : response.body.distribution[i].children >= 0

\* C4: a save-settings or calculate-capacity request that supplies a mix whose
\* values do not sum to 100 within 0.01 gets an error, no distribution, and
\* leaves the stored settings exactly as they were.
C4_InvalidMixRejected ==
    [][(/\ MixRequestPending
        /\ \E k \in {"age_mix", "schedule_mix", "days_mix"} \cap DOMAIN pending.data :
              ~WithinTolerance(pending.data[k]))
          => /\ response'.status = 400
             /\ "error" \in DOMAIN response'.body
             /\ ~HasDistribution(response')
             /\ capacity_settings' = capacity_settings]_vars

\* an error response while the table holds settings that an earlier request
\* changed
C4_Witness ==
    /\ pending = NULL
    /\ response # NULL
    /\ response.status = 400
    /\ Len(capacity_settings) = 1
    /\ capacity_settings[1] # CapacitySettingsDefaults

\* C5: a request with total_children < 0 fails with a validation error: no
\* distribution is produced and no negative total is stored.
C5_NegativeTotalRejected ==
    [][(/\ MixRequestPending
        /\ "total_children" \in DOMAIN pending.data
        /\ pending.data.total_children < 0)
          => /\ response'.status = 400
             /\ ~HasDistribution(response')
             /\ \A n \in 1..Len(capacity_settings') :
                   capacity_settings'[n].total_children >= 0]_vars

\* the staff and child numbers S and C that the ratio string rs spells
RatioParts(rs) ==
    CHOOSE p \in (1..MaxRatioStaff) \X (1..MaxRatioChildren) :
        RatioStr(p[1], p[2]) = rs

\* the smallest k with k * C >= child_count * S
SmallestCover(child_count, S, C) ==
    CHOOSE k \in 0..(child_count * S) :
        /\ k * C >= child_count * S
        /\ \A j \in 0..(child_count * S) : j * C >= child_count * S => k <= j

\* C6: for every child count >= 0 and every ratio "S:C" with positive S and C,
\* evaluate_ratio_option returns the smallest integer k with
\* k * C >= child_count * S; 0 children need 0 staff, 12 children at 1:12 need
\* 1 and 13 children at 1:12 need 2.
C6_TrueCeiling ==
    ratio_out # NULL =>
        LET p == RatioParts(ratio_in.ratio_str)
            n == ratio_in.child_count
            k == ratio_out.returned
        IN /\ k = SmallestCover(n, p[1], p[2])
           /\ (n = 0 => k = 0)
           /\ (n = 12 /\ ratio_in.ratio_str = <<"1", ":", "1", "2">> => k = 1)
           /\ (n = 13 /\ ratio_in.ratio_str = <<"1", ":", "1", "2">> => k = 2)

\* 13 children at 1:12: one child over the boundary needs a second member
C6_Witness ==
    /\ ratio_out # NULL
    /\ ratio_in.child_count = 13
    /\ ratio_in.ratio_str = <<"1", ":", "1", "2">>
    /\ ratio_out.returned = 2

\* the last response is the result of a staffing calculation
StaffingResponse == response # NULL /\ response.status = 200

\* the age_group row a group result was computed from
GroupNamed(name) ==
    age_group[CHOOSE n \in 1..Len(age_group) : age_group[n].name = name]

\* staff needed under the basic ratio of the group of a group result
BasicStaffNeeded(gr) ==
    LET p == RatioParts(GroupNamed(gr.name).required_ratio)
    IN SmallestCover(gr.children, p[1], p[2])

\* C7: an age group with min_age_months < 18 always ends with
\* ratio_used = 'basic' and staff_needed computed from its basic ratio, for
\* every roster and every list of enhanced options declared on the group.
C7_InfantAlwaysBasic ==
    StaffingResponse =>
        \A i \in 1..Len(response.body.age_groups) :
            LET gr == response.body.age_groups[i]
            IN GroupNamed(gr.name).min_age_months < 18 =>
                  /\ gr.ratio_used = "basic"
                  /\ gr.ratio = GroupNamed(gr.name).required_ratio
                  /\ gr.staff_needed = BasicStaffNeeded(gr)

\* the permit levels of rank 2 and above
TeacherLevels ==
    {"Associate Teacher", "Teacher", "Master Teacher", "Site Supervisor",
     "Program Director"}

\* the ids of the roster: the available rows of staff_member
Roster == {n \in 1..Len(staff_member) : staff_member[n].is_available}

RosterTeachers == {n \in Roster : staff_member[n].permit_level \in TeacherLevels}

RosterAides(min_units) ==
    {n \in Roster : /\ staff_member[n].permit_level = "Assistant"
                    /\ staff_member[n].ece_units >= min_units}

\* what an option declared on an age group asks for
MeetsRequirements(option) ==
    /\ Cardinality(RosterTeachers) >= Get(option, "requires_teachers", 1)
    /\ Cardinality(RosterAides(Get(option, "aide_min_ece_units", 0)))
          >= Get(option, "requires_aides", 0)

\* C8: can_use_enhanced_ratio returns eligible = true if and only if the
\* number of roster members of permit rank >= 2 is at least the option's
\* required teacher count and the number of Assistants whose units are >= the
\* option's aide minimum is at least the required aide count.
C8_EligibleIffCountsMet ==
    StaffingResponse =>
        \A i \in 1..Len(response.body.age_groups) :
            LET gr == response.body.age_groups[i]
                declared == GroupNamed(gr.name).enhanced_ratios
            IN /\ Len(gr.enhanced_options) = Len(declared)
               /\ \A k \in 1..Len(declared) :
                     gr.enhanced_options[k].can_use <=> MeetsRequirements(declared[k])

\* one option is refused for the aides' units alone while another one, with
\* the same numbers of teachers and aides, is granted
C8_Witness ==
    /\ StaffingResponse
    /\ \E i \in 1..Len(response.body.age_groups) :
          LET options == response.body.age_groups[i].enhanced_options
          IN \E k, m \in 1..Len(options) :
                /\ options[k].can_use
                /\ ~options[m].can_use
                /\ options[k].requirements.teachers = options[m].requirements.teachers
                /\ options[k].requirements.aides = options[m].requirements.aides
                /\ options[k].requirements.aide_min_ece
                      < options[m].requirements.aide_min_ece

\* the positions of the eligible options of a group result
Eligible(gr) == {k \in 1..Len(gr.enhanced_options) : gr.enhanced_options[k].can_use}

\* the first-declared of the eligible options that need the fewest staff
BestEligible(gr) ==
    CHOOSE k \in Eligible(gr) :
        \A m \in Eligible(gr) :
            \/ gr.enhanced_options[k].staff_needed < gr.enhanced_options[m].staff_needed
            \/ /\ gr.enhanced_options[k].staff_needed = gr.enhanced_options[m].staff_needed
               /\ k <= m

\* the group result carries enhanced option k as its choice
Selected(gr, k) ==
    /\ gr.ratio_used = "enhanced"
    /\ gr.ratio = gr.enhanced_options[k].ratio
    /\ gr.staff_needed = gr.enhanced_options[k].staff_needed
    /\ "enhanced_description" \in DOMAIN gr
    /\ gr.enhanced_description = gr.enhanced_options[k].description

\* the group result carries the basic ratio as its choice
BasicKept(gr) ==
    /\ gr.ratio_used = "basic"
    /\ gr.ratio = GroupNamed(gr.name).required_ratio
    /\ gr.staff_needed = BasicStaffNeeded(gr)
    /\ "enhanced_description" \notin DOMAIN gr

\* the group results of non-infant groups with several eligible options
SeveralEligible ==
    {i \in 1..Len(response.body.age_groups) :
        LET gr == response.body.age_groups[i]
        IN /\ GroupNamed(gr.name).min_age_months >= 18
           /\ Cardinality(Eligible(gr)) >= 2}

\* C9 as stated: when several enhanced options of a non-infant age group are
\* eligible, the eligible option that yields the fewest required staff is
\* selected, the first-declared one among equals.
C9_FewestStaffSelected ==
    StaffingResponse =>
        \A i \in SeveralEligible :
            Selected(response.body.age_groups[i],
                     BestEligible(response.body.age_groups[i]))

\* C9: when several enhanced options of a non-infant age group are eligible,
\* the eligible option that yields the fewest required staff is selected, the
\* first-declared one among equals, provided it needs fewer staff than the
\* basic ratio; otherwise the basic ratio is kept.
C9_FewestStaffSelectedIfFewerThanBasic ==
    StaffingResponse =>
        \A i \in SeveralEligible :
            LET gr == response.body.age_groups[i]
                best == BestEligible(gr)
            IN IF gr.enhanced_options[best].staff_needed < BasicStaffNeeded(gr)
               THEN Selected(gr, best)
               ELSE BasicKept(gr)

\* two eligible options need the same, smallest number of staff, fewer than
\* the basic ratio, and the earlier one is the choice although its ratio
\* differs from the later one's
C9_Witness ==
    /\ StaffingResponse
    /\ \E i \in SeveralEligible :
          LET gr == response.body.age_groups[i]
              best == BestEligible(gr)
          IN /\ Selected(gr, best)
             /\ \E m \in Eligible(gr) :
                   /\ m > best
                   /\ gr.enhanced_options[m].staff_needed = gr.staff_needed
                   /\ gr.enhanced_options[m].ratio # gr.ratio

\* C11: the peak day a capacity plan reports is a weekday whose total
\* attendance no other weekday exceeds, and of the weekdays that share that
\* total it is the earliest in the order Monday..Friday.
C11_PeakDayEarliestMaximal ==
    plan_out # NULL =>
        LET attendance == plan_out.daily_attendance
            requirements == plan_out.staff_requirements
        IN \E n \in 1..Len(WEEKDAYS) :
              /\ requirements.peak_day = WEEKDAYS[n]
              /\ requirements.peak_total = attendance[WEEKDAYS[n]].total
              /\ \A m \in 1..Len(WEEKDAYS) :
                    /\ attendance[WEEKDAYS[m]].total <= attendance[WEEKDAYS[n]].total
                    /\ m < n => attendance[WEEKDAYS[m]].total
                                    < attendance[WEEKDAYS[n]].total

\* a plan whose Monday and Tuesday attendance tie at the top: Monday is reported
C11_Witness ==
    /\ plan_out # NULL
    /\ plan_out.staff_requirements.peak_day = "Monday"
    /\ plan_out.daily_attendance["Tuesday"].total
           = plan_out.daily_attendance["Monday"].total
    /\ plan_out.daily_attendance["Monday"].total > 0
    /\ plan_out.daily_attendance["Monday"].total < plan_in.total_children

\* a plan whose peak is not the first weekday
C11_LaterPeak ==
    /\ plan_out # NULL
    /\ plan_out.staff_requirements.peak_day = "Tuesday"

\* the least whole number of staff that covers count at one per ratio
Ceiling(count, ratio) ==
    CHOOSE k \in 0..count : ratio * k >= count /\ ratio * (k - 1) < count

\* C12: for non-negative counts calculate_daily_labor returns core positions
\* ceil(coreInfants / 4) + ceil(coreChildren / 12), extended positions per
\* shift ceil(extendedInfants / 4) + ceil(extendedChildren / 12), total
\* positions core + 2 x extended, and total hours core x 7.0 + extended x
\* (6.0 + 5.5) (total_hours is in tenths of an hour).
C12_DailyLaborPositionsAndHours ==
    labor_out # NULL =>
        LET core == Ceiling(labor_in.core_infants, 4)
                    + Ceiling(labor_in.core_children, 12)
            extended == Ceiling(labor_in.extended_infants, 4)
                        + Ceiling(labor_in.extended_children, 12)
        IN /\ labor_out.core_staff = core
           /\ labor_out.extended_staff = extended
           /\ labor_out.total_positions = core + 2 * extended
           /\ labor_out.total_hours = core * 70 + extended * (60 + 55)

\* a call with counts just above both ratios in the core and in the extended
\* programme
C12_Witness ==
    /\ labor_out # NULL
    /\ labor_in.core_infants = 5
    /\ labor_in.core_children = 13
    /\ labor_in.extended_infants = 1
    /\ labor_in.extended_children = 13
    /\ labor_out.core_staff = 4
    /\ labor_out.extended_staff = 3
    /\ labor_out.total_positions = 10
    /\ labor_out.total_hours = 625

\* the permit levels of rank 3 and above
RankThreeLevels ==
    {"Teacher", "Master Teacher", "Site Supervisor", "Program Director"}

\* the rows of staff_member that are available and of rank 3 or above
AvailableTeachers ==
    {n \in 1..Len(staff_member) :
        /\ staff_member[n].is_available
        /\ staff_member[n].permit_level \in RankThreeLevels}

RECURSIVE SumOfRates(_)
SumOfRates(ids) ==
    IF ids = {} THEN 0
    ELSE LET n == CHOOSE x \in ids : TRUE
         IN staff_member[n].hourly_rate + SumOfRates(ids \ {n})

\* the half hours of a day's labor: 7 per core position, 6 + 5.5 per extended
LaborHalfHours == labor_out.core_staff * 14 + labor_out.extended_staff * 23

\* C13: the hourly rate used for labor cost is the mean hourly_rate of the
\* available staff of permit rank 3 (Teacher) or above, to the cent, and the
\* daily cost is the hours at that mean, to the cent; when no available staff
\* member has that rank, also with an empty roster, the rate is exactly 25.00
\* and a result is returned.
C13_MeanTeacherRateOrDefault ==
    labor_out # NULL =>
        LET n == Cardinality(AvailableTeachers)
            total == SumOfRates(AvailableTeachers)
        IN IF n = 0
           THEN /\ labor_out.avg_rate = 2500
                /\ 2 * labor_out.daily_cost = LaborHalfHours * 2500
           ELSE /\ 2 * Abs(n * labor_out.avg_rate - total) <= n
                /\ Abs(2 * n * labor_out.daily_cost - LaborHalfHours * total) <= n

\* a call with two available teachers of different rates and an available
\* member below rank 3, with hours to pay
C13_Witness ==
    /\ labor_out # NULL
    /\ Cardinality(AvailableTeachers) >= 1
    /\ \E n \in 1..Len(staff_member) :
          /\ staff_member[n].is_available
          /\ staff_member[n].permit_level \notin RankThreeLevels
          /\ \E m \in AvailableTeachers :
                staff_member[m].hourly_rate # staff_member[n].hourly_rate
    /\ labor_out.daily_cost > 0

\* a call with staff on the roster of whom none is an available teacher
C13_DefaultRateUsed ==
    /\ labor_out # NULL
    /\ Len(staff_member) > 0
    /\ AvailableTeachers = {}
    /\ labor_out.avg_rate = 2500
    /\ labor_out.daily_cost > 0

\* a projection has been returned: the body of GET /projections/data, the
\* base of GET /projections/sensitivity, or the base of a sensitivity call
ProjectionReturned == sens_out # NULL \/ (response # NULL /\ response.status = 200)

Projection ==
    IF sens_out # NULL THEN sens_out.base
    ELSE IF "base" \in DOMAIN response.body THEN response.body.base
    ELSE response.body

\* the settings record the returned projection was computed from
ProjectionSettings == capacity_settings[1]

\* the plans calculate_capacity_plan may return for the stored settings
SettingsPlans ==
    UNION {calculate_capacity_plan(get_age_mix(ProjectionSettings),
                                   get_schedule_mix(ProjectionSettings),
                                   get_days_mix(ProjectionSettings),
                                   ProjectionSettings.total_children, fp, staff_member) :
           fp \in SettingsRoundings}

\* the base price of the active fixed plan of combination i, or 0
PlanPrice(i) ==
    LET plan == plan_lookup_get(active_fixed_plans(core_plan), plan_combinations[i])
    IN IF plan = NULL THEN 0 ELSE plan.base_price

\* C14: the monthly revenue of a projection is the sum over the 12
\* combinations of the count the enrollment distribution assigns to the
\* combination times the base price of its active fixed plan (0 when there
\* is none), the counts being those of the distribution, which sum to
\* total_children.
C14_RevenueFromDistribution ==
    ProjectionReturned =>
        \E plan \in SettingsPlans :
            LET counts == List12(LAMBDA i : plan.distribution[i].children)
            IN /\ Projection.revenue.total
                    = SumSeq(List12(LAMBDA i : counts[i] * PlanPrice(i)))
               /\ SumSeq(counts) = ProjectionSettings.total_children

\* the monthly margin of a projection, in cents: revenue less labor and
\* variable expense; revenuePerChild - variableCostPerChild is margin / n
ProjectionMargin ==
    Projection.revenue.total - (Projection.expenses.labor + Projection.expenses.variable)

\* revenuePerChild > variableCostPerChild
BreakEvenReachable == ProjectionSettings.total_children > 0 /\ ProjectionMargin > 0

\* C15: when revenuePerChild > variableCostPerChild the reported break-even
\* enrollment is ceil(fixedExpense / (revenuePerChild - variableCostPerChild)),
\* the least whole b with b * (revenue - labor - variableExpense) >=
\* fixedExpense * total_children.
C15_BreakEvenIsCeiling ==
    (ProjectionReturned /\ BreakEvenReachable) =>
        LET b == Projection.metrics.break_even_children
            need == Projection.expenses.fixed * ProjectionSettings.total_children
        IN /\ b * ProjectionMargin >= need
           /\ (b - 1) * ProjectionMargin < need

\* what a projection reports about break-even: its metrics without the
\* entries that describe revenue, cost and enrollment
BreakEvenReport ==
    LET metrics == Projection.metrics
        keys == DOMAIN metrics \ {"labor_pct_of_revenue", "revenue_per_child",
                                  "cost_per_child", "current_enrollment",
                                  "utilization_pct"}
    IN [k \in keys |-> metrics[k]]

\* what a projection of n children whose break-even is reached at 0 children
\* (no fixed expense to cover) reports about break-even
ReachableZeroReport(n) == [break_even_children |-> 0, margin_above_break_even |-> n]

\* C16: when revenuePerChild <= variableCostPerChild (total_children = 0
\* included) the break-even is reported as unreachable: its value is 0 and
\* the report is flagged, so that it differs from the report of a break-even
\* reached at 0; and the reported break-even is never negative.
C16_UnreachableFlagged ==
    ProjectionReturned =>
        /\ Projection.metrics.break_even_children >= 0
        /\ ~BreakEvenReachable =>
              /\ Projection.metrics.break_even_children = 0
              /\ BreakEvenReport # ReachableZeroReport(ProjectionSettings.total_children)

\* a break-even reached at 0 children is reported
C16_ReachableZero ==
    /\ ProjectionReturned
    /\ BreakEvenReachable
    /\ Projection.metrics.break_even_children = 0

\* a call of calculate_sensitivity has returned a scenario
ScenarioReturned == sens_out # NULL /\ sens_out.returned # NULL

\* amount, in cents, is scaled / 100 rounded to the cent
RoundedToCent(amount, scaled) ==
    100 * amount - scaled <= 50 /\ scaled - 100 * amount <= 50

\* C17: calculate_sensitivity with variable 'price' and change p returns
\* new_revenue = base revenue x (1 + p/100), to the cent, and new_expenses
\* equal to the total expenses of the base projection.
C17_PriceScalesOnlyRevenue ==
    (sens_out # NULL /\ sens_in.variable = "price") =>
        /\ sens_out.returned # NULL
        /\ RoundedToCent(sens_out.returned.new_revenue,
                         sens_out.base.revenue.total * (100 + sens_in.change_pct))
        /\ sens_out.returned.new_expenses = sens_out.base.expenses.total

\* a price rise of 10 % on a projection with revenue and expenses
C17_Witness ==
    /\ ScenarioReturned
    /\ sens_in = [variable |-> "price", change_pct |-> 10]
    /\ sens_out.base.revenue.total = 3785000
    /\ sens_out.base.expenses.total > 0
    /\ sens_out.returned.new_revenue = 4163500
    /\ sens_out.returned.new_expenses = sens_out.base.expenses.total

\* C18: an 'enrollment' scenario scales revenue, labor and variable expense
\* by 1 + pct/100 and leaves the fixed expense as it is; a 'labor' scenario
\* scales only labor and a 'fixed_expenses' scenario only the fixed expense,
\* and in these two the revenue is the base revenue.  The scenario reports
\* the expenses as their total, to the cent.
C18_ScenarioScalesItsOwnQuantities ==
    (sens_out # NULL /\ sens_in.variable \in {"enrollment", "labor", "fixed_expenses"}) =>
        LET m == 100 + sens_in.change_pct
            base == sens_out.base
            new == sens_out.returned
            labor == base.expenses.labor
            fixed == base.expenses.fixed
            variable == base.expenses.variable
        IN /\ new # NULL
           /\ sens_in.variable = "enrollment" =>
                /\ RoundedToCent(new.new_revenue, base.revenue.total * m)
                /\ RoundedToCent(new.new_expenses, labor * m + fixed * 100 + variable * m)
           /\ sens_in.variable = "labor" =>
                /\ new.new_revenue = base.revenue.total
                /\ RoundedToCent(new.new_expenses, labor * m + fixed * 100 + variable * 100)
           /\ sens_in.variable = "fixed_expenses" =>
                /\ new.new_revenue = base.revenue.total
                /\ RoundedToCent(new.new_expenses, labor * 100 + fixed * m + variable * 100)

\* a labor rise of 10 % on a projection with all three kinds of expense
C18_Witness ==
    /\ ScenarioReturned
    /\ sens_in = [variable |-> "labor", change_pct |-> 10]
    /\ sens_out.base.expenses.labor > 0
    /\ sens_out.base.expenses.fixed > 0
    /\ sens_out.base.expenses.variable > 0
    /\ sens_out.returned.new_revenue = sens_out.base.revenue.total
    /\ 10 * (sens_out.returned.new_expenses - sens_out.base.expenses.total)
          = sens_out.base.expenses.labor

\* an enrollment drop of 20 % on such a projection
C18_EnrollmentDrop ==
    /\ ScenarioReturned
    /\ sens_in = [variable |-> "enrollment", change_pct |-> -20]
    /\ sens_out.base.expenses.fixed > 0
    /\ sens_out.base.expenses.variable > 0
    /\ 5 * (sens_out.base.expenses.total - sens_out.returned.new_expenses)
          = sens_out.base.expenses.labor + sens_out.base.expenses.variable

\* the variables calculate_sensitivity names
KnownVariables == {SENSITIVITY_VARIABLES[v] : v \in 1..Len(SENSITIVITY_VARIABLES)}

\* what a call returns is a validation error rather than a value or None
IsValidationError(returned) == returned # NULL /\ "error" \in DOMAIN returned

\* C19: calculate_sensitivity fails with a validation error when variable is
\* not one of 'enrollment', 'price', 'labor', 'fixed_expenses'.
C19_UnknownVariableRejected ==
    (sens_out # NULL /\ sens_in.variable \notin KnownVariables) =>
        IsValidationError(sens_out.returned)

\* the stored settings, roster, plans and expenses
DataStore == <<capacity_settings, staff_member, core_plan, fixed_expense, per_child_cost>>

\* C20: computing a financial projection or a sensitivity scenario never
\* writes to the data store: the stored settings, roster, plans and expenses
\* are the same before and after every step of the projections service,
\* whatever the initial store, one with no settings record included.
C20_StoreNeverWritten == [][DataStore' = DataStore]_vars

\* the units the combinations received from the remainder (count less floor)
\* and the exact fractional parts of their raw counts
PlanRemainder ==
    LET counts == PlanCounts
        raw == PlanRaw
    IN [extra |-> List12(LAMBDA i : counts[i] - IntPart(raw[i])),
        frac |-> List12(LAMBDA i : FracKey(raw[i], 0))]

\* combination i precedes combination j in the order the remainder is handed
\* out: a larger fractional part first, the fixed order among equal ones
PrecedesInRemainder(frac, i, j) ==
    KeyGreater(frac[i], frac[j]) \/ (frac[i] = frac[j] /\ i < j)

\* no combination received more than one that precedes it
HandedOutInOrder(r) ==
    \A i, j \in 1..12 : PrecedesInRemainder(r.frac, i, j) => r.extra[i] >= r.extra[j]

\* C21: the remainder N - (sum of floors) is handed out one unit each to the
\* combinations with the largest fractional parts in descending order, and
\* among combinations with equal fractional parts the one earlier in the
\* fixed order (core before extended, then full, mwf, tth, then infant before
\* child) receives its unit first.
C21_RemainderByFractionThenOrder ==
    (plan_out # NULL /\ PlanInputValid) => HandedOutInOrder(PlanRemainder)

\* a plan in which the last unit fell among equal fractional parts and went
\* to the earliest of them
C21_TieByOrder ==
    /\ plan_out # NULL
    /\ PlanInputValid
    /\ LET r == PlanRemainder
       IN /\ HandedOutInOrder(r)
          /\ \E i, j \in 1..12 :
                /\ i < j
                /\ r.frac[i] = r.frac[j]
                /\ r.extra[i] = 1
                /\ r.extra[j] = 0

\* a day view has been returned for a weekday
DayViewReturned ==
    /\ response # NULL
    /\ response.status = 200
    /\ "total_staff_required" \in DOMAIN response.body
    /\ response.body.day_name \in {WEEKDAYS[n] : n \in 1..Len(WEEKDAYS)}

WeekViewReturned ==
    /\ response # NULL
    /\ response.status = 200
    /\ "schedule_data" \in DOMAIN response.body

\* the labor figures of a weekday when the facility-wide core share is
\* applied to the day's infants and children
CoreShareLabor(day_name) ==
    UNION {{r.response.body.labor :
              r \in daily_schedule_by_core_share(capacity_settings, staff_member,
                                                 day_name, fp)} :
           fp \in SettingsRoundings}

\* C22: for every weekday the labor of the day is that of the facility-wide
\* core share (core total / total enrolled of the schedule summary) applied
\* to the day's infants and children, in the weekly view and in the
\* single-day view alike, so both views report the same labor for the day
C22_LaborFromCoreShare ==
    /\ DayViewReturned =>
          response.body.labor \in CoreShareLabor(response.body.day_name)
    /\ WeekViewReturned =>
          \A n \in 1..Len(WEEKDAYS) :
             response.body.schedule_data[WEEKDAYS[n]].labor \in CoreShareLabor(WEEKDAYS[n])

\* the weekly view alone keeps to the core share
C22_WeekViewFromCoreShare ==
    WeekViewReturned =>
       \A n \in 1..Len(WEEKDAYS) :
          response.body.schedule_data[WEEKDAYS[n]].labor \in CoreShareLabor(WEEKDAYS[n])

\* the sum of the counts whose window [from, to) holds minute t
InWindow(t, from, to, count) == IF from <= t /\ t < to THEN count ELSE 0

\* the intervals of a day of the weekly view are those of the windows, for
\* core_students students in the core program and the others in the extended
TimelineOfWindows(day, core_students) ==
    LET intervals == day.timeline.intervals
        extended_students == day.total_children - core_students
    IN /\ Len(intervals) = 45
       /\ \A n \in 1..45 :
             LET t == 420 + 15 * (n - 1)
             IN /\ intervals[n].time = t
                /\ intervals[n].staff =
                      InWindow(t, 420, 780, day.labor.extended_staff)
                      + InWindow(t, 510, 930, day.labor.core_staff)
                      + InWindow(t, 750, 1080, day.labor.extended_staff)
                /\ intervals[n].students =
                      InWindow(t, 450, 1050, extended_students)
                      + InWindow(t, 540, 900, core_students)
                /\ t \in {750, 765} =>
                      intervals[n].staff =
                         day.labor.core_staff + 2 * day.labor.extended_staff

\* C23: the timeline of each weekday has the ticks 420, 435, ..., 1080; at
\* each tick staff is the sum of the positions of the windows that are
\* active (extended AM 420 <= t < 780, core 510 <= t < 930, extended PM
\* 750 <= t < 1080) and students the sum of the groups present (extended
\* 450 <= t < 1050, core 540 <= t < 900), so at 750 and 765 the extended
\* positions are counted twice
C23_TimelineWindows ==
    WeekViewReturned =>
       \A d \in DOMAIN response.body.schedule_data :
          LET day == response.body.schedule_data[d]
          IN \E core_students \in 0..day.total_children :
                TimelineOfWindows(day, core_students)

\* a day with core and extended positions, and students of both programs
C23_Witness ==
    /\ WeekViewReturned
    /\ \E d \in DOMAIN response.body.schedule_data :
          LET day == response.body.schedule_data[d]
          IN /\ day.labor.core_staff > 0
             /\ day.labor.extended_staff > 0
             /\ day.timeline.intervals[23].time = 750
             /\ day.timeline.intervals[23].staff =
                   day.labor.core_staff + 2 * day.labor.extended_staff
             /\ day.timeline.intervals[3].students > 0
             /\ day.timeline.intervals[9].students > day.timeline.intervals[3].students

\* a weekly cost of five times the daily cost and a monthly cost of 4.33
\* times the weekly cost, in cents
FiveDaysAndMonth(daily, weekly, monthly) ==
    /\ weekly = daily * 5
    /\ monthly \in round(weekly * WEEKS_PER_MONTH, 100)

\* C24: where a weekly and a monthly labor cost are reported next to a daily
\* labor cost, in the labor_costs of the capacity plan and in the
\* weekly_labor of the schedule view, the weekly cost is the reported daily
\* cost times 5 and the monthly cost is the weekly cost times 4.33
C24_WeeklyAndMonthlyFromDaily ==
    WeekViewReturned =>
       LET costs == response.body.capacity_data.labor_costs.costs
           weekly == response.body.weekly_labor
       IN /\ FiveDaysAndMonth(costs.daily, costs.weekly, costs.monthly)
          /\ FiveDaysAndMonth(weekly.daily_cost, weekly.weekly_cost, weekly.monthly_cost)

\* the part of it that the capacity plan keeps
C24_PlanCostsFromDaily ==
    WeekViewReturned =>
       LET costs == response.body.capacity_data.labor_costs.costs
       IN FiveDaysAndMonth(costs.daily, costs.weekly, costs.monthly)

\* the ways the weekly view may have split a day it reports into core and
\* extended infants and children: those of the core share that give the
\* day's student counts and positions
SplitsOf(day) ==
    {parts \in day_split([infants |-> day.infants, children |-> day.children,
                          total |-> day.total_children],
                         response.body.capacity_data.schedule_summary) :
        /\ day.timeline.intervals[3].students =
              parts.extended_infants + parts.extended_children
        /\ day.timeline.intervals[9].students = day.total_children
        /\ day.labor.core_staff =
              Ceiling(parts.core_infants, 4) + Ceiling(parts.core_children, 12)
        /\ day.labor.extended_staff =
              Ceiling(parts.extended_infants, 4) + Ceiling(parts.extended_children, 12)}

\* the staff recorded at every tick cover the infants and children present
StaffCoverRatios(day, parts) ==
    \A n \in 1..Len(day.timeline.intervals) :
       LET tick == day.timeline.intervals[n]
           infants_present == InWindow(tick.time, 450, 1050, parts.extended_infants)
                              + InWindow(tick.time, 540, 900, parts.core_infants)
           children_present == InWindow(tick.time, 450, 1050, parts.extended_children)
                               + InWindow(tick.time, 540, 900, parts.core_children)
       IN /\ tick.students = infants_present + children_present
          /\ tick.staff >= Ceiling(infants_present, 4) + Ceiling(children_present, 12)
          /\ tick.students > 0 => tick.staff >= 1

\* C29: at every tick of a weekday's timeline the recorded staff count is at
\* least ceil(infants present / 4) + ceil(children present / 12) for the
\* students present at that tick, and at least 1 whenever students are
\* present
C29_StaffCoverStudentsPresent ==
    WeekViewReturned =>
       \A d \in DOMAIN response.body.schedule_data :
          LET day == response.body.schedule_data[d]
          IN /\ SplitsOf(day) # {}
             /\ \A parts \in SplitsOf(day) : StaffCoverRatios(day, parts)

\* a day with infants and children in both programs, where the positions of
\* the two programs are more than the students present together require
C29_Witness ==
    /\ WeekViewReturned
    /\ \E d \in DOMAIN response.body.schedule_data :
          LET day == response.body.schedule_data[d]
          IN \E parts \in SplitsOf(day) :
                /\ parts.core_infants > 0
                /\ parts.core_children > 0
                /\ parts.extended_infants > 0
                /\ parts.extended_children > 0
                /\ StaffCoverRatios(day, parts)
                /\ day.timeline.intervals[9].staff >
                      Ceiling(day.infants, 4) + Ceiling(day.children, 12)

\* a staffing result has been returned
StaffingResult == StaffingResponse /\ "supervisor_capacity" \in DOMAIN response.body

\* max_assistants of the permit levels that supervise
MaxAssistantsOf(level) ==
    CASE level = "Program Director" -> 4
      [] level = "Site Supervisor" -> 4
      [] level = "Master Teacher" -> 3
      [] level = "Teacher" -> 2
      [] level = "Associate Teacher" -> 1
      [] OTHER -> 0

RECURSIVE SumOver(_, _)
SumOver(ids, value) ==
    IF ids = {} THEN 0
    ELSE LET n == CHOOSE x \in ids : TRUE
         IN value[n] + SumOver(ids \ {n}, value)

\* the sum of max_assistants over the roster's members who are not Assistants
RosterCapacity ==
    SumOver({n \in Roster : staff_member[n].permit_level # "Assistant"},
            [n \in 1..Len(staff_member) |-> MaxAssistantsOf(staff_member[n].permit_level)])

RosterAssistants == {n \in Roster : staff_member[n].permit_level = "Assistant"}

AssistantsWarned ==
    \E n \in 1..Len(response.body.qualification_warnings) :
       response.body.qualification_warnings[n].text
          = "Have more assistants than can be supervised"

\* C25: the supervisor capacity is the sum of max_assistants over the
\* available staff whose permit level is not Assistant, and the result has
\* the too-many-assistants warning exactly when the available Assistants are
\* more than that capacity
C25_SupervisorCapacity ==
    StaffingResult =>
       /\ response.body.supervisor_capacity.max_assistants = RosterCapacity
       /\ AssistantsWarned <=> Cardinality(RosterAssistants) > RosterCapacity

\* an Assistant whose only supervisor on the staff is not available
C25_Witness ==
    /\ StaffingResult
    /\ Cardinality(RosterAssistants) = 1
    /\ \E n \in 1..Len(staff_member) :
          /\ ~staff_member[n].is_available
          /\ MaxAssistantsOf(staff_member[n].permit_level) > 0
    /\ RosterCapacity = 0
    /\ AssistantsWarned

\* Assistants within the capacity: no warning
C25_WitnessWithin ==
    /\ StaffingResult
    /\ Cardinality(RosterAssistants) = 1
    /\ RosterCapacity = 1
    /\ ~AssistantsWarned

\* the available directors who are marked as not counting toward ratios
AdminDirectors ==
    {n \in Roster : /\ staff_member[n].is_director
                    /\ ~staff_member[n].director_counts_toward_ratio}

DirectorWarned(n) ==
    \E w \in 1..Len(response.body.qualification_warnings) :
       /\ response.body.qualification_warnings[w].text
             = "Director is not counted toward staffing ratios"
       /\ response.body.qualification_warnings[w].name = staff_member[n].name

\* C26: when the available roster has a director marked as not counting
\* toward ratios, calculate_staffing_needs raises a qualification warning
\* for that director and does not count that director as classroom staff when
\* it decides whether the facility is adequately staffed
C26_AdminDirectorNotCounted ==
    (StaffingResult /\ AdminDirectors # {}) =>
       /\ \A n \in AdminDirectors : DirectorWarned(n)
       /\ response.body.is_adequately_staffed
             <=> Cardinality(Roster \ AdminDirectors) >= response.body.total_staff_needed

\* the warning is raised
C26_AdminDirectorWarned ==
    (StaffingResult /\ AdminDirectors # {}) =>
       \A n \in AdminDirectors : DirectorWarned(n)

\* the three mixes of a settings row sum to 100 within 0.01 each
MixesTotal100(row) ==
    /\ WithinTolerance(get_age_mix(row))
    /\ WithinTolerance(get_schedule_mix(row))
    /\ WithinTolerance(get_days_mix(row))

\* C27: after any sequence of successful save-settings and calculate-capacity
\* requests the persisted capacity settings have infant% + child% = 100,
\* core% + extended% = 100 and full% + mwf% + tth% = 100, each within 0.01
C27_PersistedMixesTotal100 ==
    \A n \in 1..Len(capacity_settings) : MixesTotal100(capacity_settings[n])

\* settings saved from a request that names every percentage
C27_SavedFromFullRequest ==
    /\ Len(capacity_settings) = 1
    /\ capacity_settings[1].infant_percent = Pct(30)
    /\ MixesTotal100(capacity_settings[1])

\* the teachers the fixed ratios 1:4 and 1:12 require for a day's attendance
TeachersFor(day) ==
    (IF day.infants > 0 THEN Ceiling(day.infants, 4) ELSE 0)
    + (IF day.children > 0 THEN Ceiling(day.children, 12) ELSE 0)

C28_PeakDayIsWorstCaseWithinTolerance ==
    (/\ plan_out # NULL
     /\ plan_in.total_children >= 0
     /\ WithinTolerance(plan_in.age_mix)
     /\ WithinTolerance(plan_in.schedule_mix)
     /\ WithinTolerance(plan_in.days_mix)) =>
       \A n \in 1..Len(WEEKDAYS) :
          plan_out.staff_requirements.total_teachers_needed
             >= TeachersFor(plan_out.daily_attendance[WEEKDAYS[n]])

ThreadsHolding == {t \in DOMAIN threads : threads[t].pc \in {"return", "done"}}

\* C30: the capacity settings record is a singleton: after any interleaving
\* of concurrent requests that call CapacitySettings.get_or_create on a store
\* without a settings record, at most one record exists and every caller has
\* obtained that same record
C30_SettingsSingleton ==
    /\ Len(capacity_settings) <= 1
    /\ \A t, u \in ThreadsHolding : threads[t].settings.id = threads[u].settings.id

\* the callers that run one after the other do share one record
C30_SharedWhenSequential ==
    /\ \A t \in DOMAIN threads : threads[t].pc = "done"
    /\ Len(capacity_settings) = 1
    /\ \A t \in ThreadsHolding : threads[t].settings.id = 1

====
